---- MODULE Spec2Model ----
(***************************************************************************)
(* A model of the snapshot-diff-apply engine of DataBase-Change-Detector:  *)
(* the row diff (utils/diff.js and its drafts), the snapshot store         *)
(* (services/snapshot.js), the sync orchestrators of services/sync.js      *)
(* (syncRemoteToWeb, syncBetweenDatabases and the two earlier syncProcess   *)
(* drafts) and the triggers of the entry point (cron callback, POST /sync). *)
(*                                                                         *)
(* Three specifications share the variables:                               *)
(*   Spec       one orchestrator cycle at a time against the source, the   *)
(*              destination and the snapshot files;                        *)
(*   SpecDiff   computeDiff applied to bounded row sequences;              *)
(*   SpecSched  the scheduled and the manual trigger starting cycles.      *)
(***************************************************************************)
EXTENDS Integers, Sequences, FiniteSets, TLC

\* ------------------------------------------------------------------ rows
\* JavaScript's null and undefined (a missing field reads as undefined).
Null == "<null>"

\* The value of row[f]; undefined when the row has no such field.
Field(row, f) == IF f \in DOMAIN row THEN row[f] ELSE Null

\* The fixed column order in which a driver returns the fields of a row.
ColumnOrder == <<"code", "id", "name">>

\* JSON.stringify(row): the row's fields, in column order, as name/value pairs.
JSONstringify(row) ==
    LET cols == SelectSeq(ColumnOrder, LAMBDA c : c \in DOMAIN row)
    IN  [i \in 1..Len(cols) |-> <<cols[i], row[cols[i]]>>]

\* crypto.createHash("md5").update(s).digest("hex"): a digest, taken to be
\* collision free on the strings of the model.
Md5(s) == <<"md5", s>>

\* computeRowHash(row): the cache only memoises Md5 per serialized row.
computeRowHash(row) == Md5(JSONstringify(row))

\* ------------------------------------------------------------------ diff
\* JavaScript truthiness of a key value: undefined, null, 0 and "" are falsy.
\* Keys of the model are strings; "" stands for the falsy non-null keys.
Truthy(k) == k # Null /\ k # ""

\* key !== undefined && key !== null
NotNullish(k) == k # Null

\* Map.prototype.set on a Map kept as the sequence of its entries in
\* insertion order: an existing key keeps its place and takes the new value.
MapSet(m, k, item) ==
    IF \E i \in 1..Len(m) : m[i].key = k
    THEN [i \in 1..Len(m) |-> IF m[i].key = k THEN [key |-> k, item |-> item] ELSE m[i]]
    ELSE Append(m, [key |-> k, item |-> item])

MapHas(m, k) == \E i \in 1..Len(m) : m[i].key = k

MapGet(m, k) == LET i == CHOOSE j \in 1..Len(m) : m[j].key = k IN m[i].item

\* The pre-processing loop of computeDiff over the first n rows of data;
\* strict = FALSE is diff.js's `if (key)`, strict = TRUE is the later
\* `key !== undefined && key !== null`.
RECURSIVE BuildMap(_, _, _, _)
BuildMap(data, keyField, strict, n) ==
    IF n = 0 THEN <<>>
    ELSE LET m   == BuildMap(data, keyField, strict, n - 1)
             row == data[n]
             key == Field(row, keyField)
             ok  == IF strict THEN NotNullish(key) ELSE Truthy(key)
         IN  IF ok THEN MapSet(m, key, [row |-> row, hash |-> computeRowHash(row)])
             ELSE m

\* The rows of a list of Map entries, in the list's order.
RowsOf(entries) == [i \in 1..Len(entries) |-> entries[i].item.row]

\* The classification with the deletes loop's test of newMap left out.
DiffOfMapsDeletesAll(oldMap, newMap) ==
    [inserts |-> RowsOf(SelectSeq(newMap, LAMBDA e : ~MapHas(oldMap, e.key))),
     updates |-> RowsOf(SelectSeq(newMap, LAMBDA e :
                     MapHas(oldMap, e.key) /\ e.item.hash # MapGet(oldMap, e.key).hash)),
     deletes |-> RowsOf(oldMap)]

\* The classification shared by the Map-based versions of computeDiff.
DiffOfMaps(oldMap, newMap) ==
    [inserts |-> RowsOf(SelectSeq(newMap, LAMBDA e : ~MapHas(oldMap, e.key))),
     updates |-> RowsOf(SelectSeq(newMap, LAMBDA e :
                     MapHas(oldMap, e.key) /\ e.item.hash # MapGet(oldMap, e.key).hash)),
     deletes |-> RowsOf(SelectSeq(oldMap, LAMBDA e : ~MapHas(newMap, e.key)))]

\* computeDiff of src/utils/diff.js (the module services/sync.js requires).
computeDiff(oldData, newData, keyField) ==
    DiffOfMaps(BuildMap(oldData, keyField, FALSE, Len(oldData)),
               BuildMap(newData, keyField, FALSE, Len(newData)))

\* computeDiff of the later draft (null/undefined keys only are skipped).
computeDiffStrict(oldData, newData, keyField) ==
    DiffOfMaps(BuildMap(oldData, keyField, TRUE, Len(oldData)),
               BuildMap(newData, keyField, TRUE, Len(newData)))

EmptyDiff == [inserts |-> <<>>, updates |-> <<>>, deletes |-> <<>>]

\* new Map(): no entry for a row of the model, none for any other row;
\* clears counts the calls of hashCache.clear().
EmptyCache == [entries |-> {}, others |-> 0, clears |-> 0]

\* if (hashCache.size > 10000) hashCache.clear()
HashCacheLimit == 10000

\* hashCache.size: the entries for rows of the model and those for other rows.
CacheSize(cache) == Cardinality(cache.entries) + cache.others

\* computeRowHash returning hashCache.get(rowString) after having stored the
\* digest before the clear: undefined whenever this call cleared the cache.
computeRowHashLostOnClear(cache, row) ==
    LET rowString == JSONstringify(row)
    IN  IF \E e \in cache.entries : e[1] = rowString
        THEN [hash  |-> (CHOOSE e \in cache.entries : e[1] = rowString)[2],
              cache |-> cache]
        ELSE IF CacheSize(cache) > HashCacheLimit
        THEN [hash |-> <<"undefined", <<>>>>, cache |-> [EmptyCache EXCEPT !.clears = cache.clears + 1]]
        ELSE [hash  |-> Md5(rowString),
              cache |-> [cache EXCEPT !.entries = @ \cup {<<rowString, Md5(rowString)>>}]]

\* computeRowHash(row) with its cache: the hash returned and the cache left.
\* A hit returns the stored value; a miss computes the digest, clears a cache
\* that has grown beyond the limit and stores the digest.
computeRowHashCached(cache, row) ==
    LET rowString == JSONstringify(row)
    IN  IF \E e \in cache.entries : e[1] = rowString
        THEN [hash  |-> (CHOOSE e \in cache.entries : e[1] = rowString)[2],
              cache |-> cache]
        ELSE LET hash == Md5(rowString)
                 kept == IF CacheSize(cache) > HashCacheLimit
                         THEN [EmptyCache EXCEPT !.clears = cache.clears + 1]
                         ELSE cache
             IN  [hash  |-> hash,
                  cache |-> [kept EXCEPT !.entries = @ \cup {<<rowString, hash>>}]]

\* The pre-processing loop over the first n rows of data with the cache
\* threaded through it: the Map built and the cache left.
RECURSIVE BuildMapCached(_, _, _, _, _)
BuildMapCached(cache, data, keyField, strict, n) ==
    IF n = 0 THEN [map |-> <<>>, cache |-> cache]
    ELSE LET prev == BuildMapCached(cache, data, keyField, strict, n - 1)
             row  == data[n]
             key  == Field(row, keyField)
             ok   == IF strict THEN NotNullish(key) ELSE Truthy(key)
             h    == computeRowHashCached(prev.cache, row)
         IN  IF ok THEN [map   |-> MapSet(prev.map, key, [row |-> row, hash |-> h.hash]),
                         cache |-> h.cache]
             ELSE prev

\* computeDiff of the Map-based versions as it runs against the module's
\* cache: the diff returned and the cache left.
computeDiffCached(cache, oldData, newData, keyField, strict) ==
    LET o == BuildMapCached(cache, oldData, keyField, strict, Len(oldData))
        n == BuildMapCached(o.cache, newData, keyField, strict, Len(newData))
    IN  [diff |-> DiffOfMaps(o.map, n.map), cache |-> n.cache]

\* The property name an object takes for a key: String(key).
ToPropertyKey(k) == IF k = Null THEN "undefined" ELSE k

\* The earliest draft's loop oldMap[row[keyField]] = { row, hash }: an object
\* used as the map, no row skipped, no cache.
RECURSIVE BuildObject(_, _, _)
BuildObject(data, keyField, n) ==
    IF n = 0 THEN <<>>
    ELSE MapSet(BuildObject(data, keyField, n - 1),
                ToPropertyKey(Field(data[n], keyField)),
                [row |-> data[n], hash |-> computeRowHash(data[n])])

\* computeDiff of the earliest draft (part_000).
computeDiffObject(oldData, newData, keyField) ==
    DiffOfMaps(BuildObject(oldData, keyField, Len(oldData)),
               BuildObject(newData, keyField, Len(newData)))

Range(s) == {s[i] : i \in 1..Len(s)}

\* ------------------------------------------------------------- databases
\* Configured tables, in configuration order (syncProcess's drafts name the
\* first one acc_master).
Tables == <<"rrc_clients", "acc_users">>

TableSet == Range(Tables)

\* let primaryKey = "id"; if (table === "rrc_clients") primaryKey = "code";
KeyField(t) == IF t = "rrc_clients" THEN "code" ELSE "id"

\* Key and content values of the model, in the order a query returns them.
\* Numeric ids are written as strings; "" is the falsy key (0 or "").
CodeOrder == <<"A">>
IdOrder   == <<"7">>
NameOrder == <<"X", "Y">>

KeyOrder(t) == IF t = "rrc_clients" THEN CodeOrder ELSE IdOrder

MkRow(t, k, n) == IF t = "rrc_clients" THEN [code |-> k, name |-> n]
                  ELSE [id |-> k, name |-> n]

\* Every row a table of the model can hold, in result order.
AllRowsSeq(t) ==
    LET K == KeyOrder(t)
        N == NameOrder
    IN  [i \in 1..(Len(K) * Len(N)) |->
            MkRow(t, K[((i - 1) \div Len(N)) + 1], N[((i - 1) % Len(N)) + 1])]

\* The contents a table can have: rows with unique keys.
TableStates(t) ==
    {S \in SUBSET Range(AllRowsSeq(t)) :
        \A r1, r2 \in S : r1[KeyField(t)] = r2[KeyField(t)] => r1 = r2}

AllDB == {[rrc_clients |-> a, acc_users |-> b] :
             a \in TableStates("rrc_clients"), b \in TableStates("acc_users")}

EmptyDB == [rrc_clients |-> {}, acc_users |-> {}]

\* The rows of a `SELECT ... FROM t` over content S, as the result array.
QueryRows(S, t) == SelectSeq(AllRowsSeq(t), LAMBDA r : r \in S)

\* The result of fetchRemoteData / of createSnapshotFromWebDB's two SELECTs.
QueryAll(db) == [t \in TableSet |-> QueryRows(db[t], t)]

\* INSERT ... ON CONFLICT (key) DO UPDATE SET ...
Upsert(S, row, kf) == {r \in S : r[kf] # row[kf]} \cup {row}

\* UPDATE t SET ... WHERE key = $1
Update(S, row, kf) == IF \E r \in S : r[kf] = row[kf] THEN Upsert(S, row, kf) ELSE S

\* DELETE FROM t WHERE key = $1
Delete(S, row, kf) == {r \in S : r[kf] # row[kf]}

\* Whether a plain INSERT of row violates the key's unique constraint (23505).
Conflicts(S, row, kf) == \E r \in S : r[kf] = row[kf]

\* -------------------------------------------------------- snapshot store
\* A DatabaseSnapshot is a mapping from table names to arrays of rows; {} is
\* the mapping with no tables.
EmptySnapshot == [t \in {} |-> <<>>]

\* { rrc_clients: [], acc_users: [] } / emptySnapshot[table] = [] per table.
EmptyTables(ts) == [t \in ts |-> <<>>]

\* JSON.stringify(snapshot) and JSON.parse of it: every row goes through its
\* serialized form and comes back as a row.
ParseRow(pairs) == [f \in {pairs[i][1] : i \in 1..Len(pairs)} |->
                      (CHOOSE i \in 1..Len(pairs) : pairs[i][1] = f) ]

JSONparseRow(pairs) == [f \in DOMAIN ParseRow(pairs) |-> pairs[ParseRow(pairs)[f]][2]]

JSONofSnapshot(snap) ==
    [t \in DOMAIN snap |-> [i \in 1..Len(snap[t]) |-> JSONstringify(snap[t][i])]]

JSONparseSnapshot(text) ==
    [t \in DOMAIN text |-> [i \in 1..Len(text[t]) |-> JSONparseRow(text[t][i])]]

\* A file of the snapshot directory: absent, holding gzipped JSON, or holding
\* bytes that do not gunzip/parse.
NoFile == [state |-> "missing", text |-> EmptySnapshot]

CorruptFile == [state |-> "corrupt", text |-> EmptySnapshot]

FileOf(snap) == [state |-> "ok", text |-> JSONofSnapshot(snap)]

\* getSnapshotPaths(dbName): the main file, the backup file and the archives
\* directory's files of dbName (one per timestamp, oldest first).
NoFiles == [main |-> NoFile, backup |-> NoFile, archives |-> <<>>]

\* The names snapshots are stored under.
StoreKeys == {"remote", "web"}

\* A loadSnapshot whose catch returns {} without trying the backup file.
loadSnapshotNoBackup(st, dbName) ==
    LET paths == st[dbName]
    IN  IF paths.main.state = "ok" THEN JSONparseSnapshot(paths.main.text)
        ELSE EmptySnapshot

\* A loadSnapshot that takes whatever the main file's bytes yield (a gunzip
\* that accepts a truncated stream, a parser that closes what is open).
loadSnapshotLenient(st, dbName) ==
    LET paths == st[dbName]
    IN  IF paths.main.state # "missing" THEN JSONparseSnapshot(paths.main.text)
        ELSE EmptySnapshot

\* loadSnapshot(dbName) over the files st: never throws.
loadSnapshot(st, dbName) ==
    LET paths == st[dbName]
    IN  IF paths.main.state = "ok" THEN JSONparseSnapshot(paths.main.text)
        ELSE IF paths.main.state = "missing" THEN EmptySnapshot
        ELSE IF paths.backup.state = "ok" THEN JSONparseSnapshot(paths.backup.text)
        ELSE EmptySnapshot

\* copyFileSync(paths.main, archivePath): a new file of the archives, or, when
\* dbName's newest archive carries the same millisecond timestamp (sameStamp),
\* that file overwritten.
Archived(archives, file, sameStamp) ==
    IF sameStamp /\ Len(archives) > 0
    THEN [archives EXCEPT ![Len(archives)] = file]
    ELSE Append(archives, file)

\* A saveSnapshot that copies the main file to the archives only.
BackedUpAtArchiveOnly(paths, sameStamp) ==
    IF paths.main.state # "missing"
    THEN [paths EXCEPT !.archives = Archived(paths.archives, paths.main, sameStamp)]
    ELSE paths

\* The files after the backup and archive copies of saveSnapshot.
BackedUpAt(paths, sameStamp) ==
    IF paths.main.state # "missing"
    THEN [paths EXCEPT !.backup = paths.main,
                       !.archives = Archived(paths.archives, paths.main, sameStamp)]
    ELSE paths

\* The copies of a save within a cycle: queries to the databases separate a
\* cycle's saves, so the timestamp is a new one.
BackedUp(paths) == BackedUpAt(paths, FALSE)

\* saveSnapshot(dbName, snapshot) returning true: the files afterwards.
saveSnapshotAt(st, dbName, snapshot, sameStamp) ==
    [st EXCEPT ![dbName] =
        [BackedUpAt(st[dbName], sameStamp) EXCEPT !.main = FileOf(snapshot)]]

saveSnapshot(st, dbName, snapshot) == saveSnapshotAt(st, dbName, snapshot, FALSE)

\* The leading bytes of a file's content: what a lenient reader would get
\* from them is at most the first table.
TruncatedText(text) == [t \in DOMAIN text \cap {Tables[1]} |-> text[t]]

\* A file whose write or copy stopped part-way: it does not gunzip.
PartialFile(text) == [state |-> "corrupt", text |-> TruncatedText(text)]

\* saveSnapshot(dbName, snapshot) throwing: the files an I/O error can leave,
\* the error striking at the backup copy, at the archive copy or while
\* writeFileSync has truncated the main file.
saveSnapshotThrows(st, dbName, snapshot) ==
    LET paths == st[dbName]
    IN  {st,
         [st EXCEPT ![dbName] = [paths EXCEPT !.backup =
              IF paths.main.state # "missing" THEN paths.main ELSE paths.backup]],
         [st EXCEPT ![dbName] = [BackedUp(paths) EXCEPT !.main = CorruptFile]]}

\* saveSnapshot(dbName, snapshot) stopped by a crash or an I/O error between
\* its first file operation and the end of writeFileSync: the files it can
\* leave, a half-made copy or a half-written main file included.
saveSnapshotInterrupted(st, dbName, snapshot, sameStamp) ==
    LET paths  == st[dbName]
        exists == paths.main.state # "missing"
        copied == BackedUpAt(paths, sameStamp)
    IN  saveSnapshotThrows(st, dbName, snapshot)
        \cup {[st EXCEPT ![dbName] = [copied EXCEPT !.main = PartialFile(JSONofSnapshot(snapshot))]]}
        \cup (IF exists
              THEN {[st EXCEPT ![dbName] = [paths EXCEPT !.backup = PartialFile(paths.main.text)]],
                    [st EXCEPT ![dbName] = [copied EXCEPT !.archives =
                        [@ EXCEPT ![Len(@)] = PartialFile(paths.main.text)]]],
                    [st EXCEPT ![dbName] = copied]}
              ELSE {})

\* fs.readdirSync(archiveDir): the archive files of every stored name, in the
\* order of their names (dbName, then timestamp).
Listing(ag) ==
    [i \in 1..Len(ag["remote"]) |-> [key |-> "remote", idx |-> i]]
    \o [i \in 1..Len(ag["web"]) |-> [key |-> "web", idx |-> i]]

\* The files the loop has unlinked when it has handled the first upTo files:
\* those whose ageInDays > maxAgeInDays.
Unlinked(ag, maxAgeInDays, upTo) ==
    {Listing(ag)[i] : i \in {j \in 1..upTo :
        ag[Listing(ag)[j].key][Listing(ag)[j].idx] > maxAgeInDays}}

\* What is left of dbName's archive files (or of their ages) without gone.
Kept(seq, dbName, gone) ==
    LET idxs == SelectSeq([i \in 1..Len(seq) |-> i],
                          LAMBDA i : [key |-> dbName, idx |-> i] \notin gone)
    IN  [j \in 1..Len(idxs) |-> seq[idxs[j]]]

\* purgeOldSnapshots(maxAgeInDays) called on the manager: the files, their
\* ages and the count returned. An error (readdirSync, statSync or unlinkSync
\* throwing after upTo files) is caught and makes the call return 0.
purgeOldSnapshots(st, ag, maxAgeInDays, upTo, failed) ==
    LET gone == Unlinked(ag, maxAgeInDays, upTo)
    IN  [store    |-> [k \in StoreKeys |-> [st[k] EXCEPT !.archives = Kept(@, k, gone)]],
         ages     |-> [k \in StoreKeys |-> Kept(ag[k], k, gone)],
         returned |-> IF failed THEN 0 ELSE Cardinality(gone)]

\* !oldSnapshot || Object.keys(oldSnapshot).length === 0
NoValidSnapshot(snap) == DOMAIN snap = {}

\* !oldSnapshot || !oldSnapshot.acc_master || !oldSnapshot.acc_users
NoValidSnapshotDraft(snap) == ~(TableSet \subseteq DOMAIN snap)

\* oldSnapshot[table] || []
TableOr(snap, t) == IF t \in DOMAIN snap THEN snap[t] ELSE <<>>

\* ----------------------------------------------------------------- state
VARIABLES
    program,   \* the version of services/sync.js that is deployed
    source,    \* the source database's tables (sets of rows)
    web,       \* the destination's committed tables
    txn,       \* the cycle's destination client: "none", "open" or "aborted"
    txnWeb,    \* the tables as the open transaction sees them
    store,     \* the snapshot directory: files per stored name
    cy,        \* the cycle in flight: its position, its locals, what it did
    cycles,    \* cycles started so far
    writes,    \* external writes to the source so far
    stale,     \* the call a crash struck after its COMMIT and before its save
    dOld, dNew, dOut, dImpl, dpc,       \* SpecDiff: computeDiff's call
    dOldKind, dNewKind,                 \* what the two arguments are
    hashCache,                          \* the module's hashCache
    isSyncRunning, inflight, triggers, skipped, entry, \* SpecSched
    settled,   \* the syncProcess() call that settled last and how
    ages,      \* SpecStore: the age in days of every archive file
    saved,     \* the snapshots of the completed saves, per stored name
    pristine,  \* per stored name: nothing but completed saves wrote its files
    lastSave,  \* the saveSnapshot call just made, if that was the last call
    loaded,    \* the loadSnapshot call just made: the files it met, its result
    purged,    \* the purgeOldSnapshots call just made: before, after, outcome
    faults,    \* interrupted saves and damaged files so far
    dbConnections, \* SpecConn: the web pool and the ODBC reuse pool
    conns,     \* the ODBC connections made, held by callers, closed
    call,      \* the getDBConnection / fetchData call in progress or just made
    released,  \* the releaseConnection call just made
    closedAll, \* the closeConnections call just made
    syncStats, \* SpecStats: the per-source statistics of sync.js
    run,       \* the orchestrator call in progress or just made
    durations, \* per source, the durations of its successful cycles
    view,      \* the result of the getSyncStats call just made
    forced,    \* SpecForce: the forceCreateSnapshot call just made
    ap         \* SpecApply: the syncToWebDB call in progress

vars == <<program, source, web, txn, txnWeb, store, cy, cycles, writes, stale,
          dOld, dNew, dOut, dImpl, dpc, dOldKind, dNewKind, hashCache,
          isSyncRunning, inflight, triggers, skipped, entry, settled,
          ages, saved, pristine, lastSave, loaded, purged, faults,
          dbConnections, conns, call, released, closedAll,
          syncStats, run, durations, view, forced, ap>>

cycleVars == <<program, source, web, txn, txnWeb, store, cy, cycles, writes, stale>>

diffVars == <<dOld, dNew, dOut, dImpl, dpc, dOldKind, dNewKind, hashCache>>

schedVars == <<isSyncRunning, inflight, triggers, skipped, entry, settled>>

fsVars == <<ages, saved, pristine, lastSave, loaded, purged, faults>>

cycleRest == <<program, source, web, txn, txnWeb, cy, cycles, writes, stale>>

connVars == <<dbConnections, conns, call, released, closedAll>>

statsVars == <<syncStats, run, durations, view>>

forceVars == <<forced>>

applyVars == <<ap>>

auxVars == <<connVars, statsVars, forceVars, applyVars>>

baseVars == <<cycleVars, diffVars, schedVars, fsVars>>

connRest == <<baseVars, statsVars, forceVars, applyVars>>

statsRest == <<baseVars, connVars, forceVars, applyVars>>

forceRest == <<diffVars, schedVars, fsVars, connVars, statsVars, applyVars>>

applyRest == <<baseVars, connVars, statsVars, forceVars>>

\* Bounds of the model.
MaxCycles == 2

MaxSourceWrites == 1

\* The three versions of services/sync.js.
Programs == {"current", "draft2", "draft1"}

\* The name the cycle's snapshot is stored under (the drafts' store has one).
SnapshotKey(c) == c.args.src

\* A cycle's locals before it starts.
IdleCycle ==
    [fn |-> "none", args |-> [src |-> "remote", tgt |-> "web", tables |-> Tables],
     pc |-> "idle", batch |-> 0, early |-> FALSE,
     newData |-> EmptySnapshot, oldSnapshot |-> EmptySnapshot,
     diffData |-> EmptySnapshot, total |-> -1,
     err |-> "none", result |-> "none", sent |-> <<>>, releases |-> 0,
     \* what the cycle has done, for the properties
     web0 |-> EmptyDB, store0 |-> [k \in StoreKeys |-> NoFiles],
     storeAtDiff |-> [k \in StoreKeys |-> NoFiles],
     begun |-> FALSE, boot |-> "none", savedNew |-> FALSE, committed |-> FALSE,
     applied |-> <<>>, failedAt |-> 0, destFailed |-> FALSE, dupKey |-> FALSE,
     reapply |-> FALSE,
     \* the call before this one, with these arguments, was terminated
     \* part-way after it had started in step
     afterCrash |-> FALSE]

\* No crash has left a committed cycle without its snapshot.
NoStale == [on |-> FALSE, fn |-> "none", args |-> IdleCycle.args]

\* A statement sent to the destination.
Stmt(op, t) == [op |-> op, table |-> t]

InitDiffVars ==
    /\ dOld = <<>> /\ dNew = <<>> /\ dOut = EmptyDiff /\ dImpl = "none" /\ dpc = "idle"
    /\ dOldKind = "array" /\ dNewKind = "array" /\ hashCache = EmptyCache

\* No syncProcess() call has settled.
NoSettle == [by |-> "none", n |-> 0, outcome |-> "none"]

InitSchedVars ==
    /\ isSyncRunning = FALSE /\ inflight = <<>> /\ triggers = 0 /\ skipped = 0
    /\ entry = "none" /\ settled = NoSettle

\* No call of the snapshot store alone has been made.
NoSave == [on |-> FALSE, key |-> "none", done |-> FALSE, found |-> FALSE, prev |-> NoFile]

NoLoad == [on |-> FALSE, key |-> "none", files |-> NoFiles, value |-> EmptySnapshot,
           raised |-> FALSE]

NoPurge == [form |-> "none", maxAge |-> 0,
            before |-> [k \in StoreKeys |-> <<>>], after |-> [k \in StoreKeys |-> <<>>],
            returned |-> 0, raised |-> FALSE, failed |-> FALSE]

InitFsVars ==
    /\ ages = [k \in StoreKeys |-> <<>>]
    /\ saved = [k \in StoreKeys |-> <<>>]
    /\ pristine = [k \in StoreKeys |-> TRUE]
    /\ lastSave = NoSave
    /\ loaded = NoLoad
    /\ purged = NoPurge
    /\ faults = 0

\* dbConnections as the module defines it: no web pool, an empty ODBC pool.
NoCall == [fn |-> "none", dbKey |-> "none", pc |-> "idle", retries |-> 0,
           attempts |-> 0, delays |-> <<>>, errors |-> <<>>, conn |-> 0,
           names |-> <<>>, executed |-> <<>>, result |-> "none", value |-> <<>>,
           err |-> 0]

NoRelease == [on |-> FALSE, dbKey |-> "none", conn |-> 0, before |-> <<>>,
              after |-> <<>>, closed |-> FALSE]

NoClose == [on |-> FALSE, returned |-> FALSE, failures |-> 0]

InitConnVars ==
    /\ dbConnections = [web    |-> [pool |-> "null", connected |-> FALSE,
                                    validated |-> FALSE],
                        remote |-> [pool |-> <<>>]]
    /\ conns = [made |-> 0, held |-> {}, closed |-> {}]
    /\ call = NoCall
    /\ released = NoRelease
    /\ closedAll = NoClose

\* The entry every source starts from (sync.js:8-18, 363-373); time 0 is null.
NewStats == [totalSyncs |-> 0, successfulSyncs |-> 0, failedSyncs |-> 0,
             lastSyncTime |-> 0, lastSuccessTime |-> 0, lastErrorTime |-> 0,
             lastError |-> Null, averageDuration |-> <<0, 1>>,
             totalDuration |-> 0]

NoRun == [fn |-> "none", src |-> "none", tgt |-> "none", via |-> "none",
          pc |-> "idle", err |-> Null, outcome |-> "none", message |-> Null,
          caught |-> FALSE, time |-> 0]

NoView == [on |-> FALSE, value |-> <<>>, writes |-> 0]

InitStatsVars ==
    /\ syncStats = [k \in {"web", "remote"} |-> NewStats]
    /\ run = NoRun
    /\ durations = [k \in {"web", "remote", "local"} |-> <<>>]
    /\ view = NoView

NoForce == [on |-> FALSE, n |-> 0, dbKey |-> "none", fault |-> "none",
            raised |-> FALSE, success |-> FALSE, message |-> Null,
            before |-> [k \in StoreKeys |-> NoFiles]]

InitForceVars == forced = NoForce

\* No syncToWebDB call: the batches started so far with the statements then
\* pending, and the statements handed to the client and not yet completed.
NoApply == [tables |-> <<>>, diff |-> <<>>, pc |-> "idle", batch |-> 0,
            queue |-> <<>>, log |-> <<>>, completed |-> 0,
            web |-> EmptyDB, web0 |-> EmptyDB]

InitApplyVars == ap = NoApply

InitAuxVars ==
    /\ InitConnVars
    /\ InitStatsVars
    /\ InitForceVars
    /\ InitApplyVars

\* Process start: any source and destination content; the snapshot directory
\* is empty, or holds the snapshot of an earlier run that left the
\* destination in step with it.
Init ==
    /\ program \in Programs
    /\ source \in AllDB
    /\ web \in AllDB
    /\ txn = "none"
    /\ txnWeb = EmptyDB
    /\ store \in {[k \in StoreKeys |-> NoFiles],
                  [k \in StoreKeys |->
                      IF k = "remote" THEN [NoFiles EXCEPT !.main = FileOf(QueryAll(web))]
                      ELSE NoFiles]}
    /\ cy = IdleCycle
    /\ cycles = 0
    /\ writes = 0
    /\ stale = NoStale
    /\ InitDiffVars
    /\ InitSchedVars
    /\ InitFsVars
    /\ InitAuxVars

\* ------------------------------------------------------------ syncToWebDB
\* if (diffUsers.deletes.length > 10): one `id = ANY($1)` delete.
DeleteBatchThreshold == 10

\* diffData.<table>?.<part> (an absent table has no rows to apply).
DiffPart(diff, t, part) == IF t \in DOMAIN diff THEN diff[t][part] ELSE <<>>

\* The apply step is six batches, in this order; a batch is awaited as a whole.
BatchTable(b) == IF b <= 3 THEN "rrc_clients" ELSE "acc_users"

\* The rows of batch b. The first draft upserts acc_users' inserts and
\* updates together and has no separate acc_users update batch.
BatchRows(prog, diff, b) ==
    LET t == BatchTable(b)
    IN  CASE b \in {1, 4} /\ ~(prog = "draft1" /\ b = 4) -> DiffPart(diff, t, "inserts")
          [] b = 4 -> DiffPart(diff, t, "inserts") \o DiffPart(diff, t, "updates")
          [] b = 5 /\ prog = "draft1" -> <<>>
          [] b \in {2, 5} -> DiffPart(diff, t, "updates")
          [] OTHER -> DiffPart(diff, t, "deletes")

\* The statement a batch issues per row.
BatchOp(prog, b) ==
    CASE b = 1 -> IF prog = "draft1" THEN "insert" ELSE "upsert"
      [] b = 4 -> IF prog = "draft1" THEN "upsert" ELSE "selectWrite"
      [] b \in {2, 5} -> "update"
      [] OTHER -> "delete"

ExecRowKeepingDeleted(S, row, op, kf) ==
    CASE op = "update" -> Update(S, row, kf)
      [] op = "delete" -> S
      [] op = "insert" -> S \cup {row}
      [] OTHER -> Upsert(S, row, kf)

\* The content of a table after one statement of kind op for row.
ExecRow(S, row, op, kf) ==
    CASE op = "update" -> Update(S, row, kf)
      [] op = "delete" -> Delete(S, row, kf)
      [] op = "insert" -> S \cup {row}
      [] OTHER -> Upsert(S, row, kf)   \* upsert; SELECT then UPDATE or INSERT

\* The content after the statements for the first n rows.
RECURSIVE ExecRows(_, _, _, _, _)
ExecRows(S, rows, op, kf, n) ==
    IF n = 0 THEN S ELSE ExecRow(ExecRows(S, rows, op, kf, n - 1), rows[n], op, kf)

\* The first row of a plain-INSERT batch whose key the table already holds
\* (0 when there is none): the statement the backend rejects with 23505.
FirstConflict(S, rows, op, kf) ==
    IF op = "insert" /\ \E i \in 1..Len(rows) : Conflicts(S, rows[i], kf)
    THEN CHOOSE i \in 1..Len(rows) :
            /\ Conflicts(S, rows[i], kf)
            /\ \A j \in 1..(i - 1) : ~Conflicts(S, rows[j], kf)
    ELSE 0

\* The statements batch b sends for its rows against content S.
BatchStmts(prog, b, rows, S) ==
    LET t  == BatchTable(b)
        op == BatchOp(prog, b)
        kf == KeyField(t)
    IN  CASE op = "selectWrite" ->
               [i \in 1..Len(rows) |-> Stmt("SELECT", t)] \o
               [i \in 1..Len(rows) |->
                   Stmt(IF Conflicts(S, rows[i], kf) THEN "UPDATE" ELSE "INSERT", t)]
          [] op = "delete" /\ b = 6 /\ prog # "draft1"
                           /\ Len(rows) > DeleteBatchThreshold ->
               <<Stmt("DELETE ANY", t)>>
          [] op = "delete" -> [i \in 1..Len(rows) |-> Stmt("DELETE", t)]
          [] op = "update" -> [i \in 1..Len(rows) |-> Stmt("UPDATE", t)]
          [] OTHER -> [i \in 1..Len(rows) |-> Stmt("INSERT", t)]

\* The next batch after b that has rows (0 when none is left).
NextBatch(prog, diff, b) ==
    IF \E j \in (b + 1)..6 : Len(BatchRows(prog, diff, j)) > 0
    THEN CHOOSE j \in (b + 1)..6 :
            /\ Len(BatchRows(prog, diff, j)) > 0
            /\ \A i \in (b + 1)..(j - 1) : Len(BatchRows(prog, diff, i)) = 0
    ELSE 0

\* ------------------------------------------------------------------ cycle
\* computeDiff per configured table.
DiffData(tables, old, nd) ==
    [t \in Range(tables) |-> computeDiff(TableOr(old, t), TableOr(nd, t), KeyField(t))]

RECURSIVE TotalChanges(_, _, _)
TotalChanges(diff, tables, n) ==
    IF n = 0 THEN 0
    ELSE TotalChanges(diff, tables, n - 1)
         + Len(diff[tables[n]].inserts) + Len(diff[tables[n]].updates)
         + Len(diff[tables[n]].deletes)

\* if (totalChanges === 0): skip the database update.
SkipApply(total) == total = 0

\* The test for existing data taken one row too high.
HasExistingDataOffByOne(count) == count > 1

\* const hasExistingData = parseInt(checkExistingData.rows[0].count) > 0
HasExistingData(count) == count > 0

\* The statement the catch block sends.
CatchStatement == "ROLLBACK"

\* A backend that keeps an ended transaction's work whatever ended it.
ExecTxnControlKeepsWork(stmt, state, w, tw) == tw

\* What the destination's committed tables are after a transaction-control
\* statement: COMMIT makes an open transaction's view the content; ROLLBACK,
\* and COMMIT of an aborted transaction, leave the content as it was.
ExecTxnControl(stmt, state, w, tw) ==
    IF stmt = "COMMIT" /\ state = "open" THEN tw ELSE w

\* The diff, the count of changes and the branch on it: the cycle sends COMMIT
\* (nothing to apply), or awaits the first batch that has rows, or, when
\* syncToWebDB finds no batch with rows, goes on to save the snapshot.
Diffed(c, old, nd, st) ==
    LET diff  == DiffData(c.args.tables, old, nd)
        total == TotalChanges(diff, c.args.tables, Len(c.args.tables))
        first == NextBatch(program, diff, 0)
    IN  [c EXCEPT !.oldSnapshot = old, !.newData = nd, !.diffData = diff,
                  !.total = total, !.storeAtDiff = st,
                  !.pc = IF SkipApply(total) THEN "commit"
                         ELSE IF first = 0 THEN "saveNew" ELSE "apply",
                  !.batch = IF SkipApply(total) THEN 0 ELSE first,
                  !.sent = IF SkipApply(total) THEN Append(c.sent, Stmt("COMMIT", ""))
                           ELSE c.sent]

\* The first draft's syncProcess after its fetch: computeDiff iterates
\* oldSnapshot.<table>, a TypeError when the snapshot lacks the table; with
\* no changes it goes on to save, else syncToWebDB connects.
DiffedDraft1(c, old, nd, st) ==
    IF ~(TableSet \subseteq DOMAIN old)
    THEN [c EXCEPT !.newData = nd, !.oldSnapshot = old, !.pc = "done",
                   !.result = "failed", !.err = "TypeError"]
    ELSE LET diff  == DiffData(c.args.tables, old, nd)
             total == TotalChanges(diff, c.args.tables, Len(c.args.tables))
         IN  [c EXCEPT !.oldSnapshot = old, !.newData = nd, !.diffData = diff,
                       !.total = total, !.storeAtDiff = st,
                       !.pc = IF SkipApply(total) THEN "saveNew" ELSE "connect",
                       !.batch = IF SkipApply(total) THEN 0
                                 ELSE NextBatch(program, diff, 0)]

CaughtWithoutRollback(c, e) == [c EXCEPT !.pc = "rollback", !.err = e]

\* catch (err) { await client.query("ROLLBACK") ...
Caught(c, e) ==
    [c EXCEPT !.pc = "rollback", !.err = e,
              !.sent = Append(c.sent, Stmt(CatchStatement, ""))]

\* The cycle has returned or thrown.
Ended(c, res, e) == [c EXCEPT !.pc = "done", !.result = res, !.err = e]

\* loadSnapshot and the test for a valid previous snapshot; without one the
\* cycle counts the destination's primary table.
Loaded(c, nd) ==
    LET old     == loadSnapshot(store, SnapshotKey(c))
        novalid == IF program = "current" THEN NoValidSnapshot(old)
                   ELSE NoValidSnapshotDraft(old)
    IN  IF novalid
        THEN [c EXCEPT !.newData = nd, !.oldSnapshot = old, !.pc = "count",
                       !.sent = Append(c.sent, Stmt("COUNT", "rrc_clients"))]
        ELSE Diffed(c, old, nd, store)

\* The orchestrators a version exports and the arguments of a call.
FnsOf(prog) == IF prog = "current" THEN {"syncRemoteToWeb", "syncBetweenDatabases"}
               ELSE {"syncProcess"}

ArgsOf(f) ==
    IF f = "syncBetweenDatabases"
    THEN {[src |-> s, tgt |-> g, tables |-> ts] :
             s \in {"remote", "local"}, g \in {"web", "remote"},
             ts \in {Tables, <<"rrc_clients">>}}
    ELSE {IdleCycle.args}

\* A cycle is called. syncBetweenDatabases rejects a target other than web at
\* once; it and the first draft fetch before they connect.
StartCycle ==
    /\ cy.pc \in {"idle", "done"}
    /\ cycles < MaxCycles
    /\ \E f \in FnsOf(program) : \E a \in ArgsOf(f) :
          LET c0 == [IdleCycle EXCEPT !.fn = f, !.args = a, !.web0 = web,
                                      !.store0 = store, !.storeAtDiff = store,
                                      !.afterCrash = (cy.pc = "idle" /\ cy.afterCrash
                                                      /\ cy.fn = f /\ cy.args = a),
                                      !.reapply = (stale.on /\ stale.fn = f
                                                   /\ stale.args = a)]
          IN  cy' = IF f = "syncBetweenDatabases" /\ a.tgt # "web"
                    THEN Ended(c0, "failed", "unsupported")
                    ELSE [c0 EXCEPT !.pc = IF f = "syncBetweenDatabases" \/ program = "draft1"
                                           THEN "fetch" ELSE "connect"]
    /\ cycles' = cycles + 1
    /\ stale' = NoStale
    /\ UNCHANGED <<program, source, web, txn, txnWeb, store, writes, diffVars, schedVars, fsVars, auxVars>>

\* getDBConnection and connect() resolve; the cycle sends BEGIN.
Connect ==
    /\ cy.pc = "connect"
    /\ cy' = [cy EXCEPT !.pc = "begin", !.sent = Append(cy.sent, Stmt("BEGIN", ""))]
    /\ UNCHANGED <<program, source, web, txn, txnWeb, store, cycles, writes, stale,
                   diffVars, schedVars, fsVars, auxVars>>

\* The connection is refused: thrown before any try block holds a client.
ConnectFails ==
    /\ cy.pc = "connect"
    /\ cy' = Ended(cy, "failed", "connect")
    /\ UNCHANGED <<program, source, web, txn, txnWeb, store, cycles, writes, stale,
                   diffVars, schedVars, fsVars, auxVars>>

\* BEGIN succeeds. syncRemoteToWeb and the second draft fetch next,
\* syncBetweenDatabases loads the snapshot, the first draft's syncToWebDB
\* starts on its batches.
Begin ==
    /\ cy.pc = "begin"
    /\ txn' = "open"
    /\ txnWeb' = web
    /\ cy' = LET c == [cy EXCEPT !.begun = TRUE]
             IN  IF program = "draft1" THEN [c EXCEPT !.pc = "apply"]
                 ELSE IF c.fn = "syncBetweenDatabases" THEN Loaded(c, c.newData)
                 ELSE [c EXCEPT !.pc = "fetch"]
    /\ UNCHANGED <<program, source, web, store, cycles, writes, stale, diffVars, schedVars, fsVars, auxVars>>

BeginFails ==
    /\ cy.pc = "begin"
    /\ cy' = Caught([cy EXCEPT !.destFailed = TRUE], "other")
    /\ UNCHANGED <<program, source, web, txn, txnWeb, store, cycles, writes, stale,
                   diffVars, schedVars, fsVars, auxVars>>

\* fetchRemoteData / fetchLocalData resolve with the source's rows.
Fetch ==
    /\ cy.pc = "fetch"
    /\ cy.args.src = "remote"
    /\ cy' = LET nd == QueryAll(source)
             IN  IF program = "draft1"
                 THEN DiffedDraft1(cy, loadSnapshot(store, SnapshotKey(cy)), nd, store)
                 ELSE IF cy.fn = "syncBetweenDatabases"
                 THEN [cy EXCEPT !.newData = nd, !.pc = "connect"]
                 ELSE Loaded(cy, nd)
    /\ UNCHANGED <<program, source, web, txn, txnWeb, store, cycles, writes, stale,
                   diffVars, schedVars, fsVars, auxVars>>

\* The fetch rejects (always, for a source other than remote): inside the try
\* of syncRemoteToWeb and of the second draft, before any client elsewhere.
FetchFails ==
    /\ cy.pc = "fetch"
    /\ cy' = IF program = "draft1" \/ cy.fn = "syncBetweenDatabases"
             THEN Ended(cy, "failed", "fetch")
             ELSE Caught(cy, "fetch")
    /\ UNCHANGED <<program, source, web, txn, txnWeb, store, cycles, writes, stale,
                   diffVars, schedVars, fsVars, auxVars>>

\* SELECT COUNT(*) FROM rrc_clients resolves, on the cycle's own client: with
\* rows the cycle awaits createSnapshotFromWebDB, with none the old state is
\* the empty snapshot.
Count ==
    /\ cy.pc = "count"
    /\ cy' = IF HasExistingData(Cardinality(txnWeb["rrc_clients"]))
             THEN [cy EXCEPT !.pc = "bootstrap", !.boot = "fromDest"]
             ELSE Diffed([cy EXCEPT !.boot = "empty"],
                         EmptyTables(IF cy.fn = "syncBetweenDatabases"
                                     THEN Range(cy.args.tables) ELSE TableSet),
                         cy.newData, store)
    /\ UNCHANGED <<program, source, web, txn, txnWeb, store, cycles, writes, stale,
                   diffVars, schedVars, fsVars, auxVars>>

CountFails ==
    /\ cy.pc = "count"
    /\ txn' = "aborted"
    /\ cy' = Caught([cy EXCEPT !.destFailed = TRUE], "other")
    /\ UNCHANGED <<program, source, web, txnWeb, store, cycles, writes, stale,
                   diffVars, schedVars, fsVars, auxVars>>

\* createSnapshotFromWebDB's connect and its two SELECT * resolve, on a second
\* client of the pool (which sees the committed content).
Bootstrap ==
    /\ cy.pc = "bootstrap"
    /\ cy' = [cy EXCEPT !.oldSnapshot = QueryAll(web), !.pc = "saveWeb",
                        !.sent = cy.sent \o <<Stmt("SELECT", "rrc_clients"),
                                              Stmt("SELECT", "acc_users")>>]
    /\ UNCHANGED <<program, source, web, txn, txnWeb, store, cycles, writes, stale,
                   diffVars, schedVars, fsVars, auxVars>>

BootstrapFails ==
    /\ cy.pc = "bootstrap"
    /\ cy' = Caught([cy EXCEPT !.destFailed = TRUE], "other")
    /\ UNCHANGED <<program, source, web, txn, txnWeb, store, cycles, writes, stale,
                   diffVars, schedVars, fsVars, auxVars>>

\* The name and the data of the saveSnapshot call the cycle is at:
\* createSnapshotFromWebDB's own save ("web"; the drafts' store has one name),
\* the baseline saved under the source's name, the new snapshot.
SaveKey(c) == IF c.pc = "saveWeb" /\ program = "current" THEN "web" ELSE SnapshotKey(c)

SaveData(c) == IF c.pc = "saveNew" THEN c.newData ELSE c.oldSnapshot

\* saveSnapshot returns. After the baseline the cycle diffs (the second draft
\* commits and returns at once when the diff is empty); after the new
\* snapshot it sends COMMIT (the first draft has committed before and is done).
Save ==
    /\ cy.pc \in {"saveWeb", "saveBase", "saveNew"}
    /\ store' = saveSnapshot(store, SaveKey(cy), SaveData(cy))
    /\ cy' = CASE cy.pc = "saveWeb" /\ program = "current" -> [cy EXCEPT !.pc = "saveBase"]
               [] cy.pc = "saveWeb" /\ program # "current" ->
                    LET d == Diffed(cy, cy.oldSnapshot, cy.newData, store')
                    IN  [d EXCEPT !.early = (d.total = 0)]
               [] cy.pc = "saveBase" -> Diffed(cy, cy.oldSnapshot, cy.newData, store')
               [] OTHER ->
                    IF program = "draft1"
                    THEN Ended([cy EXCEPT !.savedNew = TRUE], "ok", "none")
                    ELSE [cy EXCEPT !.savedNew = TRUE, !.pc = "commit",
                                    !.sent = Append(cy.sent, Stmt("COMMIT", ""))]
    /\ UNCHANGED <<program, source, web, txn, txnWeb, cycles, writes, stale,
                   diffVars, schedVars, fsVars, auxVars>>

\* saveSnapshot throws on an I/O error.
SaveThrows ==
    /\ cy.pc \in {"saveWeb", "saveBase", "saveNew"}
    /\ store' \in saveSnapshotThrows(store, SaveKey(cy), SaveData(cy))
    /\ cy' = IF program = "draft1" THEN Ended(cy, "failed", "io") ELSE Caught(cy, "io")
    /\ UNCHANGED <<program, source, web, txn, txnWeb, cycles, writes, stale,
                   diffVars, schedVars, fsVars, auxVars>>

\* The statements of the batch all succeed. After the last batch with rows
\* syncToWebDB returns: the first draft sends COMMIT, the others save first.
ApplyBatch ==
    /\ cy.pc = "apply"
    /\ LET b    == cy.batch
           t    == BatchTable(b)
           rows == BatchRows(program, cy.diffData, b)
           op   == BatchOp(program, b)
           nb   == NextBatch(program, cy.diffData, b)
           c    == [cy EXCEPT !.sent = cy.sent \o BatchStmts(program, b, rows, txnWeb[t]),
                              !.applied = Append(cy.applied, b)]
       IN  /\ FirstConflict(txnWeb[t], rows, op, KeyField(t)) = 0
           /\ txnWeb' = [txnWeb EXCEPT ![t] = ExecRows(txnWeb[t], rows, op, KeyField(t), Len(rows))]
           /\ cy' = IF nb # 0 THEN [c EXCEPT !.batch = nb]
                    ELSE IF program = "draft1"
                    THEN [c EXCEPT !.pc = "commit", !.sent = Append(c.sent, Stmt("COMMIT", ""))]
                    ELSE [c EXCEPT !.pc = "saveNew"]
    /\ UNCHANGED <<program, source, web, txn, store, cycles, writes, stale,
                   diffVars, schedVars, fsVars, auxVars>>

\* A statement of the batch fails after k statements of it succeeded: the
\* backend aborts the transaction. A plain INSERT of a key the table holds
\* fails with 23505; any statement can fail for a reason of the backend's.
ApplyBatchFails ==
    /\ cy.pc = "apply"
    /\ LET b    == cy.batch
           t    == BatchTable(b)
           rows == BatchRows(program, cy.diffData, b)
           op   == BatchOp(program, b)
           dup  == FirstConflict(txnWeb[t], rows, op, KeyField(t))
       IN  \E k \in 0..(Len(rows) - 1) : \E e \in {"23505", "other"} :
              /\ dup # 0 => k < dup
              /\ k = dup - 1 => e = "23505"
              /\ txnWeb' = [txnWeb EXCEPT ![t] = ExecRows(txnWeb[t], rows, op, KeyField(t), k)]
              /\ cy' = Caught([cy EXCEPT !.failedAt = b, !.destFailed = TRUE,
                                         !.dupKey = (k = dup - 1),
                                         !.sent = cy.sent \o BatchStmts(program, b, rows, txnWeb[t])],
                              e)
    /\ txn' = "aborted"
    /\ UNCHANGED <<program, source, web, store, cycles, writes, stale, diffVars, schedVars, fsVars, auxVars>>

\* The backend executes COMMIT.
Commit ==
    /\ cy.pc = "commit"
    /\ web' = ExecTxnControl("COMMIT", txn, web, txnWeb)
    /\ txn' = "none"
    /\ txnWeb' = EmptyDB
    /\ cy' = [cy EXCEPT !.pc = "committed", !.committed = (txn = "open")]
    /\ UNCHANGED <<program, source, store, cycles, writes, stale, diffVars, schedVars, fsVars, auxVars>>

\* COMMIT is answered with an error: nothing is committed.
CommitFails ==
    /\ cy.pc = "commit"
    /\ txn' = "aborted"
    /\ cy' = Caught([cy EXCEPT !.destFailed = TRUE], "other")
    /\ UNCHANGED <<program, source, web, txnWeb, store, cycles, writes, stale,
                   diffVars, schedVars, fsVars, auxVars>>

\* The cycle resumes after COMMIT: statistics, release, return. The second
\* draft's return after a bootstrap without changes releases the client and
\* its finally block releases it again, which the pool answers by throwing.
\* The first draft's syncToWebDB returns to syncProcess, which saves.
AfterCommit ==
    /\ cy.pc = "committed"
    /\ cy' = IF program = "draft1"
             THEN [cy EXCEPT !.pc = "saveNew", !.releases = cy.releases + 1]
             ELSE IF cy.early
             THEN Ended([cy EXCEPT !.releases = cy.releases + 2], "failed", "release")
             ELSE Ended([cy EXCEPT !.releases = cy.releases + 1], "ok", "none")
    /\ UNCHANGED <<program, source, web, txn, txnWeb, store, cycles, writes, stale,
                   diffVars, schedVars, fsVars, auxVars>>

\* The backend executes the catch block's statement; the cycle records the
\* failure, releases the client and throws (syncBetweenDatabases returns
\* success: false).
Rollback ==
    /\ cy.pc = "rollback"
    /\ web' = ExecTxnControl(CatchStatement, txn, web, txnWeb)
    /\ txn' = "none"
    /\ txnWeb' = EmptyDB
    /\ cy' = Ended([cy EXCEPT !.releases = cy.releases + 1], "failed", cy.err)
    /\ UNCHANGED <<program, source, store, cycles, writes, stale, diffVars, schedVars, fsVars, auxVars>>

\* ROLLBACK itself fails: thrown out of the catch block; the connection's
\* transaction ends with the connection.
RollbackFails ==
    /\ cy.pc = "rollback"
    /\ txn' = "none"
    /\ txnWeb' = EmptyDB
    /\ cy' = Ended([cy EXCEPT !.releases = cy.releases + 1], "failed", "rollback")
    /\ UNCHANGED <<program, source, web, store, cycles, writes, stale, diffVars, schedVars, fsVars, auxVars>>

\* The snapshot stored under the cycle's source when the cycle started held,
\* for every configured table, the rows the destination held.
InStepAtStart(c) ==
    /\ SnapshotKey(c) \in StoreKeys
    /\ \A t \in Range(c.args.tables) :
          TableOr(loadSnapshot(c.store0, SnapshotKey(c)), t) = QueryRows(c.web0[t], t)

\* The process is terminated while a cycle is in flight and is started again:
\* the locals are lost, the backend rolls an open transaction back, the files
\* and the committed content stay.
Crash ==
    /\ cy.pc \notin {"idle", "done"}
    /\ txn' = "none"
    /\ txnWeb' = EmptyDB
    /\ stale' = IF \/ cy.committed /\ ~cy.savedNew /\ cy.total > 0
                   \/ cy.reapply /\ ~cy.committed
                THEN [on |-> TRUE, fn |-> cy.fn, args |-> cy.args]
                ELSE NoStale
    /\ cy' = IF InStepAtStart(cy)
             THEN [IdleCycle EXCEPT !.fn = cy.fn, !.args = cy.args, !.afterCrash = TRUE]
             ELSE IdleCycle
    /\ UNCHANGED <<program, source, web, store, cycles, writes, diffVars, schedVars, fsVars, auxVars>>

\* Someone writes the source database between two cycles.
SourceWrite ==
    /\ cy.pc \in {"idle", "done"}
    /\ cycles > 0
    /\ cycles < MaxCycles
    /\ writes < MaxSourceWrites
    /\ source' \in AllDB \ {source}
    /\ writes' = writes + 1
    /\ stale' = NoStale
    /\ UNCHANGED <<program, web, txn, txnWeb, store, cy, cycles, diffVars, schedVars, fsVars, auxVars>>

Next ==
    \/ StartCycle
    \/ Connect
    \/ ConnectFails
    \/ Begin
    \/ BeginFails
    \/ Fetch
    \/ FetchFails
    \/ Count
    \/ CountFails
    \/ Bootstrap
    \/ BootstrapFails
    \/ Save
    \/ SaveThrows
    \/ ApplyBatch
    \/ ApplyBatchFails
    \/ Commit
    \/ CommitFails
    \/ AfterCommit
    \/ Rollback
    \/ RollbackFails
    \/ Crash
    \/ SourceWrite

Spec == Init /\ [][Next]_vars

\* ------------------------------------------------------ computeDiff alone
\* Bound on the length of the row lists handed to computeDiff.
MaxRows == 2

\* Key values of the rows handed to computeDiff: two ordinary keys, the
\* falsy key and the missing one.
DiffKeys == {"A", "B", "", Null}

DiffRows == {[code |-> k, name |-> n] : k \in DiffKeys, n \in Range(NameOrder)}

DiffInputs == UNION {[1..n -> DiffRows] : n \in 0..MaxRows}

\* The synchronisation's variables while only computeDiff is exercised.
InitCycleVars ==
    /\ program = "current" /\ source = EmptyDB /\ web = EmptyDB
    /\ txn = "none" /\ txnWeb = EmptyDB
    /\ store = [k \in StoreKeys |-> NoFiles]
    /\ cy = IdleCycle /\ cycles = 0 /\ writes = 0 /\ stale = NoStale

\* What a caller can hand to computeDiff as oldData or newData: an array of
\* rows, or null/undefined, or an object that is no array.
ArgKinds == {"array", "null", "object"}

DiffArgs == {[kind |-> "array", rows |-> r] : r \in DiffInputs}
            \cup {[kind |-> k, rows |-> <<>>] : k \in ArgKinds \ {"array"}}

\* The cache when computeDiff is called: new, or grown to its limit by rows of
\* earlier calls, so that the second miss of this call clears it.
InitCaches == {EmptyCache, [EmptyCache EXCEPT !.others = HashCacheLimit]}

InitDiff ==
    /\ InitCycleVars
    /\ InitSchedVars
    /\ InitFsVars
    /\ InitAuxVars
    /\ \E o \in DiffArgs : dOld = o.rows /\ dOldKind = o.kind
    /\ \E n \in DiffArgs : dNew = n.rows /\ dNewKind = n.kind
    /\ hashCache \in InitCaches
    /\ dOut = EmptyDiff
    /\ dImpl = "none"
    /\ dpc = "idle"

\* A computeDiff that stores each row's hash on the row (row.hash = ...).
RowsAfterCallTagged(data) ==
    [i \in 1..Len(data) |->
        [code |-> data[i].code, name |-> data[i].name, hash |-> computeRowHash(data[i])]]

\* The caller's array after the call: computeDiff reads the rows and keeps
\* references to them; it assigns to no row and to neither array.
RowsAfterCall(data) == data

\* if (!Array.isArray(oldData)) oldData = []
CoerceArray(kind, rows) == IF kind = "array" THEN rows ELSE <<>>

\* computeDiff(oldData, newData, "code") of utils/diff.js returns, or throws
\* the TypeError of `for (const row of x)` over an x that is not iterable: at
\* the first loop, or at the second after the first has hashed its rows.
CallComputeDiff ==
    /\ dpc = "idle"
    /\ dImpl' = "utils/diff.js"
    /\ IF dOldKind # "array"
       THEN dpc' = "threw" /\ dOut' = EmptyDiff /\ hashCache' = hashCache
       ELSE IF dNewKind # "array"
       THEN /\ dpc' = "threw" /\ dOut' = EmptyDiff
            /\ hashCache' = BuildMapCached(hashCache, dOld, "code", FALSE, Len(dOld)).cache
       ELSE LET r == computeDiffCached(hashCache, dOld, dNew, "code", FALSE)
            IN  dpc' = "done" /\ dOut' = r.diff /\ hashCache' = r.cache
    /\ dOld' = RowsAfterCall(dOld)
    /\ dNew' = RowsAfterCall(dNew)
    /\ UNCHANGED <<dOldKind, dNewKind, cycleVars, schedVars, fsVars, auxVars>>

\* computeDiff(oldData, newData, "code") of the later draft returns.
CallComputeDiffStrict ==
    /\ dpc = "idle"
    /\ dImpl' = "part_001"
    /\ LET r == computeDiffCached(hashCache, CoerceArray(dOldKind, dOld),
                                  CoerceArray(dNewKind, dNew), "code", TRUE)
       IN  dpc' = "done" /\ dOut' = r.diff /\ hashCache' = r.cache
    /\ dOld' = RowsAfterCall(dOld)
    /\ dNew' = RowsAfterCall(dNew)
    /\ UNCHANGED <<dOldKind, dNewKind, cycleVars, schedVars, fsVars, auxVars>>

\* computeDiff(oldData, newData, "code") of the earliest draft returns or
\* throws; it has no cache.
CallComputeDiffObject ==
    /\ dpc = "idle"
    /\ dImpl' = "part_000"
    /\ IF dOldKind # "array" \/ dNewKind # "array"
       THEN dpc' = "threw" /\ dOut' = EmptyDiff
       ELSE dpc' = "done" /\ dOut' = computeDiffObject(dOld, dNew, "code")
    /\ dOld' = RowsAfterCall(dOld)
    /\ dNew' = RowsAfterCall(dNew)
    /\ UNCHANGED <<dOldKind, dNewKind, hashCache, cycleVars, schedVars, fsVars, auxVars>>

NextDiff ==
    \/ CallComputeDiff
    \/ CallComputeDiffStrict
    \/ CallComputeDiffObject

SpecDiff == InitDiff /\ [][NextDiff]_vars

\* ------------------------------------------------- scheduler and triggers
\* Bound on the triggers (cron ticks and POST /sync requests) of a run.
MaxTriggers == 4

\* The two versions of the application's entry point.
Entries == {"first", "optimized"}

InitSched ==
    /\ InitCycleVars
    /\ InitDiffVars
    /\ InitFsVars
    /\ InitAuxVars
    /\ isSyncRunning = FALSE
    /\ inflight = <<>>
    /\ triggers = 0
    /\ skipped = 0
    /\ settled = NoSettle
    /\ entry \in Entries

\* A call of syncProcess() whose promise is pending.
Pending(by, n) == [by |-> by, n |-> n]

\* The first draft's cron callback: syncProcess().catch(...).
CronTickFirst ==
    /\ entry = "first"
    /\ triggers < MaxTriggers
    /\ triggers' = triggers + 1
    /\ inflight' = Append(inflight, Pending("cron", triggers + 1))
    /\ UNCHANGED <<isSyncRunning, skipped, entry, settled, cycleVars, diffVars, fsVars,
                   auxVars>>

\* The optimized cron callback up to its await: skip when the flag is set,
\* otherwise set it and call syncProcess().
CronTick ==
    /\ entry = "optimized"
    /\ triggers < MaxTriggers
    /\ triggers' = triggers + 1
    /\ IF isSyncRunning
       THEN /\ skipped' = skipped + 1
            /\ UNCHANGED <<isSyncRunning, inflight>>
       ELSE /\ isSyncRunning' = TRUE
            /\ inflight' = Append(inflight, Pending("cron", triggers + 1))
            /\ UNCHANGED skipped
    /\ UNCHANGED <<entry, settled, cycleVars, diffVars, fsVars, auxVars>>

\* router.post("/sync") up to its await: calls syncProcess().
PostSync ==
    /\ triggers < MaxTriggers
    /\ triggers' = triggers + 1
    /\ inflight' = Append(inflight, Pending("manual", triggers + 1))
    /\ UNCHANGED <<isSyncRunning, skipped, entry, settled, cycleVars, diffVars, fsVars,
                   auxVars>>

\* How a syncProcess() promise settles.
Outcomes == {"resolved", "rejected"}

FlagAfterSettleOnSuccess(flag, ent, by, outcome) ==
    IF ent = "optimized" /\ by = "cron" /\ outcome = "resolved" THEN FALSE ELSE flag

\* isSyncRunning after the callback that awaited the call has run to its
\* end: the optimized cron callback logs a rejection in its catch and clears
\* the flag in its finally; the other callers never touch the flag.
FlagAfterSettle(flag, ent, by, outcome) ==
    IF ent = "optimized" /\ by = "cron" THEN FALSE ELSE flag

\* A pending syncProcess() settles, resolved or rejected, and its caller's
\* continuation runs.
Settle ==
    /\ \E i \in 1..Len(inflight), outcome \in Outcomes :
          /\ inflight' = [j \in 1..(Len(inflight) - 1) |->
                             IF j < i THEN inflight[j] ELSE inflight[j + 1]]
          /\ isSyncRunning' = FlagAfterSettle(isSyncRunning, entry, inflight[i].by, outcome)
          /\ settled' = [by |-> inflight[i].by, n |-> inflight[i].n, outcome |-> outcome]
    /\ UNCHANGED <<triggers, skipped, entry, cycleVars, diffVars, fsVars, auxVars>>

NextSched ==
    \/ CronTickFirst
    \/ CronTick
    \/ PostSync
    \/ Settle

SpecSched == InitSched /\ [][NextSched]_vars

\* ------------------------------------------------- the snapshot store alone
\* Bounds: completed saves, faults (interrupted saves and damaged files) and
\* the days the model counts.
MaxSaves == 3

MaxFaults == 2

MaxDays == 2

\* The name the calls of this specification store under: SOURCE_DB_NAME.
StoreNames == {"remote"}

\* The snapshots handed to saveSnapshot: both tables, rrc_clients not empty.
StoreSnapshots ==
    {QueryAll(db) : db \in {d \in AllDB : d.acc_users = {} /\ d.rrc_clients # {}}}

InitStore ==
    /\ InitCycleVars
    /\ InitDiffVars
    /\ InitSchedVars
    /\ InitFsVars
    /\ InitAuxVars

\* The archive files of every stored name with their ages.
ArchiveDir(st, ag) ==
    [k \in StoreKeys |->
        [i \in 1..Len(ag[k]) |-> [file |-> st[k].archives[i], age |-> ag[k][i]]]]

\* The ages after a save: the archive copy, if one was added, is new.
AgesAfterSave(st, stNew, ag, k) ==
    [ag EXCEPT ![k] = IF Len(stNew[k].archives) > Len(st[k].archives)
                      THEN Append(@, 0) ELSE @]

\* The millisecond of dbName's newest archive copy has not passed.
SameStampPossible(k) == lastSave.on /\ lastSave.key = k /\ lastSave.found

\* saveSnapshot(k, snap) returns true.
SaveSnapshot ==
    \E k \in StoreNames, snap \in StoreSnapshots, sameStamp \in BOOLEAN :
        /\ Len(saved["remote"]) + Len(saved["web"]) < MaxSaves
        /\ sameStamp => SameStampPossible(k)
        /\ store' = saveSnapshotAt(store, k, snap, sameStamp)
        /\ ages' = AgesAfterSave(store, store', ages, k)
        /\ saved' = [saved EXCEPT ![k] = Append(@, snap)]
        /\ lastSave' = [on |-> TRUE, key |-> k, done |-> TRUE,
                        found |-> store[k].main.state # "missing",
                        prev |-> store[k].main]
        /\ loaded' = NoLoad /\ purged' = NoPurge
        /\ UNCHANGED <<pristine, faults, cycleRest, diffVars, schedVars, auxVars>>

\* saveSnapshot(k, snap) is stopped by a crash or throws on an I/O error.
SaveInterrupted ==
    \E k \in StoreNames, snap \in StoreSnapshots, sameStamp \in BOOLEAN :
        /\ faults < MaxFaults
        /\ sameStamp => SameStampPossible(k)
        /\ \E out \in saveSnapshotInterrupted(store, k, snap, sameStamp) :
              /\ store' = out
              /\ ages' = AgesAfterSave(store, out, ages, k)
        /\ pristine' = [pristine EXCEPT ![k] = FALSE]
        /\ faults' = faults + 1
        /\ lastSave' = [on |-> TRUE, key |-> k, done |-> FALSE, found |-> FALSE,
                        prev |-> store[k].main]
        /\ loaded' = NoLoad /\ purged' = NoPurge
        /\ UNCHANGED <<saved, cycleRest, diffVars, schedVars, auxVars>>

\* loadSnapshot(k) returns: every error is caught inside it.
LoadSnapshot ==
    \E k \in StoreNames :
        /\ loaded' = [on |-> TRUE, key |-> k, files |-> store[k],
                      value |-> loadSnapshot(store, k), raised |-> FALSE]
        /\ purged' = NoPurge
        /\ UNCHANGED <<store, ages, saved, pristine, lastSave, faults,
                       cycleRest, diffVars, schedVars, auxVars>>

\* The main file of k is damaged from outside (truncated).
TruncateMain ==
    \E k \in StoreNames :
        /\ faults < MaxFaults
        /\ store[k].main.state = "ok"
        /\ store' = [store EXCEPT ![k].main = PartialFile(@.text)]
        /\ pristine' = [pristine EXCEPT ![k] = FALSE]
        /\ faults' = faults + 1
        /\ lastSave' = NoSave /\ loaded' = NoLoad /\ purged' = NoPurge
        /\ UNCHANGED <<ages, saved, cycleRest, diffVars, schedVars, auxVars>>

\* The backup file of k is damaged from outside (truncated).
TruncateBackup ==
    \E k \in StoreNames :
        /\ faults < MaxFaults
        /\ store[k].backup.state = "ok"
        /\ store' = [store EXCEPT ![k].backup = PartialFile(@.text)]
        /\ pristine' = [pristine EXCEPT ![k] = FALSE]
        /\ faults' = faults + 1
        /\ lastSave' = NoSave /\ loaded' = NoLoad /\ purged' = NoPurge
        /\ UNCHANGED <<ages, saved, cycleRest, diffVars, schedVars, auxVars>>

\* The main file of k is removed from outside.
RemoveMain ==
    \E k \in StoreNames :
        /\ faults < MaxFaults
        /\ store[k].main.state # "missing"
        /\ store' = [store EXCEPT ![k].main = NoFile]
        /\ pristine' = [pristine EXCEPT ![k] = FALSE]
        /\ faults' = faults + 1
        /\ lastSave' = NoSave /\ loaded' = NoLoad /\ purged' = NoPurge
        /\ UNCHANGED <<ages, saved, cycleRest, diffVars, schedVars, auxVars>>

\* A day passes: every archive file is a day older (MaxDays stands for
\* MaxDays or more).
Tick ==
    /\ \E k \in StoreKeys : \E i \in 1..Len(ages[k]) : ages[k][i] < MaxDays
    /\ ages' = [k \in StoreKeys |->
                   [i \in 1..Len(ages[k]) |->
                       IF ages[k][i] < MaxDays THEN ages[k][i] + 1 ELSE MaxDays]]
    /\ lastSave' = NoSave /\ loaded' = NoLoad /\ purged' = NoPurge
    /\ UNCHANGED <<store, saved, pristine, faults, cycleRest, diffVars, schedVars, auxVars>>

\* snapshotManager.purgeOldSnapshots(maxAge) runs to its end.
PurgeOldSnapshots ==
    \E maxAge \in 0..(MaxDays - 1) :
        LET r == purgeOldSnapshots(store, ages, maxAge, Len(Listing(ages)), FALSE)
        IN  /\ store' = r.store
            /\ ages' = r.ages
            /\ purged' = [form |-> "method", maxAge |-> maxAge,
                          before |-> ArchiveDir(store, ages),
                          after |-> ArchiveDir(r.store, r.ages),
                          returned |-> r.returned, raised |-> FALSE, failed |-> FALSE]
            /\ lastSave' = NoSave /\ loaded' = NoLoad
            /\ UNCHANGED <<saved, pristine, faults, cycleRest, diffVars, schedVars, auxVars>>

\* snapshotManager.purgeOldSnapshots(maxAge) meets an error of the file
\* system after upTo files: the catch logs it and returns 0.
PurgeFails ==
    \E maxAge \in 0..(MaxDays - 1), upTo \in 0..Len(Listing(ages)) :
        LET r == purgeOldSnapshots(store, ages, maxAge, upTo, TRUE)
        IN  /\ upTo < Len(Listing(ages)) \/ upTo = 0
            /\ store' = r.store
            /\ ages' = r.ages
            /\ purged' = [form |-> "method", maxAge |-> maxAge,
                          before |-> ArchiveDir(store, ages),
                          after |-> ArchiveDir(r.store, r.ages),
                          returned |-> r.returned, raised |-> FALSE, failed |-> TRUE]
            /\ lastSave' = NoSave /\ loaded' = NoLoad
            /\ UNCHANGED <<saved, pristine, faults, cycleRest, diffVars, schedVars, auxVars>>

\* The daily cleanup job of the optimized entry point: it calls the
\* destructured purgeOldSnapshots, so `this` is undefined and
\* this.snapshotDir, read before the try block, raises a TypeError.
CleanupJob ==
    \E maxAge \in 0..(MaxDays - 1) :
        /\ purged' = [form |-> "detached", maxAge |-> maxAge,
                      before |-> ArchiveDir(store, ages),
                      after |-> ArchiveDir(store, ages),
                      returned |-> 0, raised |-> TRUE, failed |-> FALSE]
        /\ lastSave' = NoSave /\ loaded' = NoLoad
        /\ UNCHANGED <<store, ages, saved, pristine, faults,
                       cycleRest, diffVars, schedVars, auxVars>>

\* Saving and loading, with interrupted saves and damaged files.
NextStore ==
    \/ SaveSnapshot
    \/ SaveInterrupted
    \/ LoadSnapshot
    \/ TruncateMain
    \/ TruncateBackup
    \/ RemoveMain

SpecStore == InitStore /\ [][NextStore]_vars

\* Saving, the passing of days and the purge of the archives.
NextPurge ==
    \/ SaveSnapshot
    \/ Tick
    \/ PurgeOldSnapshots
    \/ PurgeFails
    \/ CleanupJob

SpecPurge == InitStore /\ [][NextPurge]_vars

\* ------------------------------------------- database.js: the connections
\* let retries = 3;
Retries == 3

\* setTimeout(resolve, 1000) between two attempts.
RetryDelay == 1000

\* dbConnections.remote.config.params.maxPoolSize
maxPoolSize == 5

\* ODBC connections odbc.connect hands out in one run.
MaxConns == 6

\* The named queries of one fetchData call, in Object.entries order.
QuerySets == {<<>>, <<"rrc_clients">>, <<"rrc_clients", "acc_users">>}

SqlOf(name) == <<"SELECT", name>>

QueryResult(sql) == <<"rows", sql>>

\* The catch of one failed odbc.connect inside the while (retries > 0) loop:
\* the error of attempt n is n.
OdbcAttemptFailedReturnsNothing(c) ==
    LET r == c.retries - 1
        n == c.attempts + 1
    IN  IF r = 0
        THEN [c EXCEPT !.retries = r, !.attempts = n, !.errors = Append(@, n),
                       !.pc = "done", !.result = "returned", !.conn = 0]
        ELSE [c EXCEPT !.retries = r, !.attempts = n, !.errors = Append(@, n),
                       !.delays = Append(@, RetryDelay)]

OdbcAttemptFailed(c) ==
    LET r == c.retries - 1
        n == c.attempts + 1
    IN  IF r = 0
        THEN [c EXCEPT !.retries = r, !.attempts = n, !.errors = Append(@, n),
                       !.pc = "done", !.result = "raised", !.err = n]
        ELSE [c EXCEPT !.retries = r, !.attempts = n, !.errors = Append(@, n),
                       !.delays = Append(@, RetryDelay)]

\* releaseConnection on an ODBC pool: push under capacity, close otherwise.
PoolAfterReleaseAtCapacity(pool, connection) ==
    IF Len(pool) <= maxPoolSize THEN Append(pool, connection) ELSE pool

PoolAfterRelease(pool, connection) ==
    IF Len(pool) < maxPoolSize THEN Append(pool, connection) ELSE pool

ClosedOnRelease(pool, connection) ==
    IF PoolAfterRelease(pool, connection) = pool THEN {connection} ELSE {}

\* queryNames.forEach((name, index) => results[name] = queryResults[index])
FetchResultsReversed(queryNames, queryResults) ==
    {<<queryNames[i], queryResults[Len(queryNames) + 1 - i]>> :
        i \in 1..Len(queryNames)}

FetchResults(queryNames, queryResults) ==
    {<<queryNames[i], queryResults[i]>> : i \in 1..Len(queryNames)}

\* getDBConnection("web"): connectToDatabase only when not connected, and
\* there the pool is made and queried only when there is no pool object.
getDBConnectionWeb(w, queryOk) ==
    IF w.connected THEN [web |-> w, result |-> "returned", liveness |-> "none"]
    ELSE IF w.pool = "null"
         THEN IF queryOk
              THEN [web |-> [pool |-> "open", connected |-> TRUE, validated |-> TRUE],
                    result |-> "returned", liveness |-> "passed"]
              ELSE [web |-> [pool |-> "open", connected |-> FALSE, validated |-> FALSE],
                    result |-> "raised", liveness |-> "failed"]
         ELSE [web |-> w, result |-> "returned", liveness |-> "none"]

\* closeConnections on the postgres entry: pool.end() with its error
\* swallowed, connected = false; the pool object stays.
WebAfterCloseOnlyWhenEnded(w, endOk) ==
    IF w.pool = "null" THEN w
    ELSE [pool |-> IF endOk THEN "ended" ELSE w.pool,
          connected |-> IF endOk THEN FALSE ELSE w.connected,
          validated |-> IF endOk THEN FALSE ELSE w.validated]

WebAfterClose(w, endOk) ==
    IF w.pool = "null" THEN w
    ELSE [pool |-> IF endOk THEN "ended" ELSE w.pool,
          connected |-> FALSE,
          validated |-> IF endOk THEN FALSE ELSE w.validated]

InitConn ==
    /\ InitCycleVars
    /\ InitDiffVars
    /\ InitSchedVars
    /\ InitFsVars
    /\ InitAuxVars

CallFree == call.pc \in {"idle", "done"}

\* The call has its connection: getDBConnection returns it, fetchData goes
\* on to its queries.
Acquired(c, connection) ==
    IF c.fn = "fetchData"
    THEN [c EXCEPT !.pc = "queries", !.conn = connection]
    ELSE [c EXCEPT !.pc = "done", !.result = "returned", !.conn = connection]

\* getDBConnection(dbKey) of an ODBC source, by itself or from fetchData:
\* pool.pop() when the pool holds a connection, connectToDatabase otherwise.
GetOdbc ==
    /\ CallFree
    /\ \E fn \in {"getDBConnection", "fetchData"}, names \in QuerySets :
        /\ fn = "getDBConnection" => names = <<>>
        /\ LET pool == dbConnections.remote.pool
               c    == [NoCall EXCEPT !.fn = fn, !.dbKey = "remote", !.names = names]
           IN  IF Len(pool) > 0
               THEN /\ dbConnections' = [dbConnections EXCEPT
                                           !.remote.pool = SubSeq(pool, 1, Len(pool) - 1)]
                    /\ conns' = [conns EXCEPT !.held = @ \cup {pool[Len(pool)]}]
                    /\ call' = Acquired(c, pool[Len(pool)])
               ELSE /\ call' = [c EXCEPT !.pc = "attempt", !.retries = Retries]
                    /\ UNCHANGED <<dbConnections, conns>>
    /\ released' = NoRelease
    /\ closedAll' = NoClose
    /\ UNCHANGED connRest

\* connection = await odbc.connect(connectionString); break;
OdbcAttemptOk ==
    /\ call.pc = "attempt"
    /\ conns.made < MaxConns
    /\ conns' = [conns EXCEPT !.made = @ + 1, !.held = @ \cup {conns.made + 1}]
    /\ call' = Acquired([call EXCEPT !.attempts = @ + 1], conns.made + 1)
    /\ UNCHANGED <<dbConnections, released, closedAll>>
    /\ UNCHANGED connRest

OdbcAttemptFails ==
    /\ call.pc = "attempt"
    /\ call' = OdbcAttemptFailed(call)
    /\ UNCHANGED <<dbConnections, conns, released, closedAll>>
    /\ UNCHANGED connRest

ReleasedByFetchOnSuccess(connection, raised) ==
    IF connection # 0 /\ ~raised THEN {connection} ELSE {}

\* What fetchData's finally block hands to releaseConnection: the connection,
\* when one was acquired, whether the try returned or threw.
ReleasedByFetch(connection, raised) == IF connection # 0 THEN {connection} ELSE {}

\* fetchData after its connection: every query issued on it, Promise.all,
\* the results named; finally the connection is released.
RunQueries ==
    /\ call.pc = "queries"
    /\ \E failing \in SUBSET (1..Len(call.names)) :
        LET n       == Len(call.names)
            issued  == [i \in 1..n |-> [sql |-> SqlOf(call.names[i]), conn |-> call.conn]]
            results == [i \in 1..n |-> QueryResult(issued[i].sql)]
            pool    == dbConnections.remote.pool
        IN  /\ \/ /\ failing = {}
                  /\ call' = [call EXCEPT !.pc = "done", !.executed = issued,
                                          !.result = "returned",
                                          !.value = FetchResults(call.names, results)]
               \/ \E e \in failing :
                     call' = [call EXCEPT !.pc = "done", !.executed = issued,
                                          !.result = "raised", !.err = e]
            /\ LET handed == ReleasedByFetch(call.conn, failing # {})
               IN  /\ dbConnections' =
                         [dbConnections EXCEPT
                            !.remote.pool = IF handed = {} THEN pool
                                            ELSE PoolAfterRelease(pool, call.conn)]
                   /\ conns' = [conns EXCEPT
                                  !.held = @ \ handed,
                                  !.closed = @ \cup (IF handed = {} THEN {}
                                                     ELSE ClosedOnRelease(pool, call.conn))]
    /\ UNCHANGED <<released, closedAll>>
    /\ UNCHANGED connRest

\* The connection handed back next: holders are interchangeable, and the
\* lowest-numbered connection still held goes first.
Oldest(held) == {c \in held : \A d \in held : c <= d}

\* releaseConnection(dbKey, connection), called by a holder of connection.
ReleaseConnection ==
    /\ CallFree
    /\ \E dbKey \in {"remote", "web", "other"}, connection \in Oldest(conns.held) :
        LET pool  == dbConnections.remote.pool
            after == IF dbKey = "remote" THEN PoolAfterRelease(pool, connection) ELSE pool
            shut  == IF dbKey = "remote" THEN ClosedOnRelease(pool, connection) ELSE {}
        IN  /\ dbConnections' = [dbConnections EXCEPT !.remote.pool = after]
            /\ conns' = [conns EXCEPT
                           !.held = IF dbKey = "remote" THEN @ \ {connection} ELSE @,
                           !.closed = @ \cup shut]
            /\ released' = [on |-> TRUE, dbKey |-> dbKey, conn |-> connection,
                            before |-> pool, after |-> after, closed |-> shut # {}]
    /\ call' = NoCall
    /\ closedAll' = NoClose
    /\ UNCHANGED connRest

\* getDBConnection("web") whose liveness query, if made, succeeds.
GetWeb ==
    /\ CallFree
    /\ LET r == getDBConnectionWeb(dbConnections.web, TRUE)
       IN  /\ dbConnections' = [dbConnections EXCEPT !.web = r.web]
           /\ call' = [NoCall EXCEPT !.fn = "getDBConnection", !.dbKey = "web",
                                     !.pc = "done", !.result = r.result,
                                     !.value = <<r.liveness,
                                                 dbConnections.web.validated>>]
    /\ released' = NoRelease
    /\ closedAll' = NoClose
    /\ UNCHANGED conns
    /\ UNCHANGED connRest

\* getDBConnection("web") whose SELECT NOW() fails.
GetWebFails ==
    /\ CallFree
    /\ ~dbConnections.web.connected
    /\ dbConnections.web.pool = "null"
    /\ LET r == getDBConnectionWeb(dbConnections.web, FALSE)
       IN  /\ dbConnections' = [dbConnections EXCEPT !.web = r.web]
           /\ call' = [NoCall EXCEPT !.fn = "getDBConnection", !.dbKey = "web",
                                     !.pc = "done", !.result = r.result,
                                     !.value = <<r.liveness,
                                                 dbConnections.web.validated>>]
    /\ released' = NoRelease
    /\ closedAll' = NoClose
    /\ UNCHANGED conns
    /\ UNCHANGED connRest

\* closeConnections(): every close has its own catch, so any of them may
\* fail; the ODBC pool is emptied and the web entry marked not connected.
CloseConnections ==
    /\ CallFree
    /\ \E endOk \in BOOLEAN, failing \in SUBSET Range(dbConnections.remote.pool) :
        /\ dbConnections.web.pool = "null" => endOk
        /\ dbConnections' = [web    |-> WebAfterClose(dbConnections.web, endOk),
                             remote |-> [pool |-> <<>>]]
        /\ conns' = [conns EXCEPT
                       !.closed = @ \cup (Range(dbConnections.remote.pool) \ failing)]
        /\ closedAll' = [on |-> TRUE, returned |-> TRUE,
                         failures |-> Cardinality(failing)
                                      + (IF endOk THEN 0 ELSE 1)]
    /\ call' = NoCall
    /\ released' = NoRelease
    /\ UNCHANGED connRest

NextConn ==
    \/ GetOdbc
    \/ OdbcAttemptOk
    \/ OdbcAttemptFails
    \/ RunQueries
    \/ ReleaseConnection
    \/ GetWeb
    \/ GetWebFails
    \/ CloseConnections

SpecConn == InitConn /\ [][NextConn]_vars

\* --------------------------------------------- sync.js: the statistics
\* Cycles started in one run of the statistics specification.
MaxRuns == 3

\* Date.now() - startTime of a cycle, in milliseconds.
MaxDuration == 2

RECURSIVE Gcd(_, _)
Gcd(a, b) == IF b = 0 THEN a ELSE Gcd(b, a % b)

\* The quotient n / d of two non-negative numbers, as a fraction in lowest
\* terms.
Ratio(n, d) == IF n = 0 THEN <<0, 1>> ELSE <<n \div Gcd(n, d), d \div Gcd(n, d)>>

\* Math.round of a non-negative fraction.
MathRound(q) == (2 * q[1] + q[2]) \div (2 * q[2])

RECURSIVE SumSeq(_)
SumSeq(seq) == IF seq = <<>> THEN 0 ELSE seq[1] + SumSeq(Tail(seq))

\* if (!syncStats[sourceDbKey]) syncStats[sourceDbKey] = {...};
\* syncStats[sourceDbKey].totalSyncs++
StatsStarted(st, k) ==
    LET s0 == [x \in DOMAIN st \cup {k} |-> IF x \in DOMAIN st THEN st[x] ELSE NewStats]
    IN  [s0 EXCEPT ![k].totalSyncs = @ + 1]

\* The statistics after COMMIT.
StatsAfterSuccessOverTotal(s, duration, now) ==
    [s EXCEPT !.successfulSyncs = @ + 1,
              !.lastSuccessTime = now,
              !.totalDuration = @ + duration,
              !.averageDuration = Ratio(s.totalDuration + duration, s.totalSyncs)]

StatsAfterSuccess(s, duration, now) ==
    [s EXCEPT !.successfulSyncs = @ + 1,
              !.lastSuccessTime = now,
              !.totalDuration = @ + duration,
              !.averageDuration = Ratio(s.totalDuration + duration,
                                        s.successfulSyncs + 1)]

\* The statistics lines of the catch blocks.
StatsAfterFailure(s, message, now) ==
    [s EXCEPT !.failedSyncs = @ + 1, !.lastErrorTime = now, !.lastError = message]

\* finally { ...lastSyncTime = new Date() }
StatsFinally(s, now) == [s EXCEPT !.lastSyncTime = now]

\* One entry of getSyncStats' result: the stored object itself.
StatsObjectStored(st, k) == [fields |-> st[k], stored |-> TRUE]

\* One entry of getSyncStats' result: a new object with the fields spread
\* into it and averageDuration formatted.
StatsObjectOf(st, k) ==
    [fields |-> [st[k] EXCEPT !.averageDuration = <<MathRound(@), "ms">>],
     stored |-> FALSE]

getSyncStats(st) == [k \in DOMAIN st |-> StatsObjectOf(st, k)]

InitStats ==
    /\ InitCycleVars
    /\ InitDiffVars
    /\ InitSchedVars
    /\ InitFsVars
    /\ InitAuxVars

\* The two orchestrators of the current sync.js with their arguments, called
\* by the scheduler callback or by another caller.
StatCalls ==
    {[NoRun EXCEPT !.fn = "syncRemoteToWeb", !.src = "remote", !.tgt = "web",
                   !.via = v] : v \in {"cron", "call"}}
    \cup {[NoRun EXCEPT !.fn = "syncBetweenDatabases", !.src = s, !.tgt = t,
                        !.via = v] :
            s \in {"remote", "local"}, t \in {"web", "remote"}, v \in {"cron", "call"}}

\* The cycle gets as far as its transaction.
ReachesTxn(r) == r.tgt = "web" /\ r.src = "remote"

\* What can fail before the transaction is entered.
EarlyErrors(r) ==
    IF r.fn = "syncRemoteToWeb" THEN {"connect"}
    ELSE IF r.tgt # "web" THEN {"target"}
    ELSE IF r.src # "remote" THEN {"not implemented"}
    ELSE {"fetch", "connect"}

\* The call is over: how it ended and, under the scheduler callback's
\* try/catch, whether the raise was caught.
Finished(r, outcome, message) ==
    [r EXCEPT !.pc = "done", !.outcome = outcome, !.message = message,
              !.caught = (outcome = "raised" /\ r.via = "cron")]

StatStart ==
    /\ run.pc \in {"idle", "done"}
    /\ run.time < MaxRuns
    /\ \E c \in StatCalls :
        /\ run' = [c EXCEPT !.pc = "started", !.time = run.time + 1]
        /\ syncStats' = StatsStarted(syncStats, c.src)
    /\ view' = NoView
    /\ UNCHANGED durations
    /\ UNCHANGED statsRest

\* A failure before the transaction: in syncRemoteToWeb the connection is
\* taken before the try, in syncBetweenDatabases everything is inside it.
StatFailsEarly ==
    /\ run.pc = "started"
    /\ \E e \in EarlyErrors(run) :
        IF run.fn = "syncRemoteToWeb"
        THEN /\ run' = Finished([run EXCEPT !.err = e], "raised", e)
             /\ UNCHANGED syncStats
        ELSE /\ run' = Finished([run EXCEPT !.err = e], "failed", e)
             /\ syncStats' = [syncStats EXCEPT ![run.src] =
                                StatsFinally(StatsAfterFailure(@, e, run.time), run.time)]
    /\ UNCHANGED <<durations, view>>
    /\ UNCHANGED statsRest

\* BEGIN ... COMMIT all succeed.
StatSucceeds ==
    /\ run.pc = "started"
    /\ ReachesTxn(run)
    /\ \E d \in 0..MaxDuration :
        /\ syncStats' = [syncStats EXCEPT ![run.src] =
                           StatsFinally(StatsAfterSuccess(@, d, run.time), run.time)]
        /\ durations' = [durations EXCEPT ![run.src] = Append(@, d)]
    /\ run' = Finished(run, "ok", Null)
    /\ UNCHANGED view
    /\ UNCHANGED statsRest

\* A statement between BEGIN and COMMIT fails: the catch is entered.
StatFailsInTxn ==
    /\ run.pc = "started"
    /\ ReachesTxn(run)
    /\ \E e \in {"begin", "apply", "save", "commit"} :
        run' = [run EXCEPT !.pc = "rollback", !.err = e]
    /\ UNCHANGED <<syncStats, durations, view>>
    /\ UNCHANGED statsRest

\* ROLLBACK succeeds: the failure is recorded; syncRemoteToWeb rethrows,
\* syncBetweenDatabases returns the failure.
StatRollback ==
    /\ run.pc = "rollback"
    /\ syncStats' = [syncStats EXCEPT ![run.src] =
                       StatsFinally(StatsAfterFailure(@, run.err, run.time), run.time)]
    /\ run' = Finished(run, IF run.fn = "syncRemoteToWeb" THEN "raised" ELSE "failed",
                       run.err)
    /\ UNCHANGED <<durations, view>>
    /\ UNCHANGED statsRest

\* ROLLBACK fails: syncRemoteToWeb leaves its catch before the statistics
\* lines; in syncBetweenDatabases the outer catch records the rollback error.
StatRollbackFails ==
    /\ run.pc = "rollback"
    /\ IF run.fn = "syncRemoteToWeb"
       THEN /\ syncStats' = [syncStats EXCEPT ![run.src] = StatsFinally(@, run.time)]
            /\ run' = Finished([run EXCEPT !.err = "rollback"], "raised", "rollback")
       ELSE /\ syncStats' = [syncStats EXCEPT ![run.src] =
                               StatsFinally(StatsAfterFailure(@, "rollback", run.time),
                                            run.time)]
            /\ run' = Finished([run EXCEPT !.err = "rollback"], "failed", "rollback")
    /\ UNCHANGED <<durations, view>>
    /\ UNCHANGED statsRest

GetSyncStats ==
    /\ run.pc \in {"idle", "done"}
    /\ view' = [on |-> TRUE, value |-> getSyncStats(syncStats), writes |-> 0]
    /\ view # view'
    /\ UNCHANGED <<syncStats, run, durations>>
    /\ UNCHANGED statsRest

\* The caller of getSyncStats overwrites a counter of the result.
MutateResult ==
    /\ view.on
    /\ view.writes = 0
    /\ \E k \in DOMAIN view.value :
        /\ view' = [view EXCEPT !.value[k].fields.totalSyncs = @ + 1, !.writes = 1]
        /\ syncStats' = IF view.value[k].stored
                        THEN [syncStats EXCEPT ![k].totalSyncs = @ + 1]
                        ELSE syncStats
    /\ UNCHANGED <<run, durations>>
    /\ UNCHANGED statsRest

NextStats ==
    \/ StatStart
    \/ StatFailsEarly
    \/ StatSucceeds
    \/ StatFailsInTxn
    \/ StatRollback
    \/ StatRollbackFails
    \/ GetSyncStats
    \/ MutateResult

SpecStats == InitStats /\ [][NextStats]_vars

\* ------------------------------------------- sync.js: forceCreateSnapshot
\* forceCreateSnapshot calls in one run.
MaxForces == 2

\* The database forceCreateSnapshot reads for dbKey.
ForcedDb(dbKey, webDb, srcDb) == IF dbKey = "web" THEN webDb ELSE srcDb

\* The files after a forceCreateSnapshot that takes the web rows whatever the
\* key.
forceCreateSnapshotFromWeb(st, dbKey, webDb, srcDb) ==
    IF dbKey \in {"web", "remote"}
    THEN saveSnapshotAt(st, dbKey, QueryAll(webDb), FALSE)
    ELSE st

\* The files after a forceCreateSnapshot(dbKey) in which nothing fails:
\* createSnapshotFromWebDB for web, fetchRemoteData and saveSnapshot for
\* remote, nothing for any other key.
forceCreateSnapshot(st, dbKey, webDb, srcDb) ==
    IF dbKey \in {"web", "remote"}
    THEN saveSnapshotAt(st, dbKey, QueryAll(ForcedDb(dbKey, webDb, srcDb)), FALSE)
    ELSE st

InitForce ==
    /\ program = "current"
    /\ source \in AllDB
    /\ web \in AllDB
    /\ txn = "none" /\ txnWeb = EmptyDB
    /\ store \in {[k \in StoreKeys |-> NoFiles],
                  [k \in StoreKeys |->
                      IF k = "remote" THEN [NoFiles EXCEPT !.main = FileOf(QueryAll(web))]
                      ELSE NoFiles]}
    /\ cy = IdleCycle /\ cycles = 0 /\ writes = 0 /\ stale = NoStale
    /\ InitDiffVars
    /\ InitSchedVars
    /\ InitFsVars
    /\ InitAuxVars

\* The call made: its key, the fault it met and what it returned.
Forced(dbKey, fault, success, message) ==
    [on |-> TRUE, n |-> forced.n + 1, dbKey |-> dbKey, fault |-> fault,
     raised |-> FALSE, success |-> success, message |-> message, before |-> store]

\* forceCreateSnapshot(dbKey) with every read and the save succeeding; a key
\* other than web and remote throws inside the try.
ForceCreateSnapshot ==
    /\ forced.n < MaxForces
    /\ \E dbKey \in {"web", "remote", "local"} :
        /\ store' = forceCreateSnapshot(store, dbKey, web, source)
        /\ forced' = IF dbKey \in {"web", "remote"}
                     THEN Forced(dbKey, "none", TRUE, "created")
                     ELSE Forced(dbKey, "unsupported", FALSE, "not supported")
    /\ UNCHANGED <<program, source, web, txn, txnWeb, cy, cycles, writes, stale>>
    /\ UNCHANGED forceRest

\* The connection, a SELECT or fetchRemoteData rejects.
ForceReadFails ==
    /\ forced.n < MaxForces
    /\ \E dbKey \in {"web", "remote"}, e \in {"connect", "query"} :
        forced' = Forced(dbKey, "read", FALSE, e)
    /\ UNCHANGED cycleRest
    /\ UNCHANGED store
    /\ UNCHANGED forceRest

\* saveSnapshot throws.
ForceSaveFails ==
    /\ forced.n < MaxForces
    /\ \E dbKey \in {"web", "remote"} :
        /\ store' \in saveSnapshotThrows(store, dbKey,
                                         QueryAll(ForcedDb(dbKey, web, source)))
        /\ forced' = Forced(dbKey, "save", FALSE, "save")
    /\ UNCHANGED <<program, source, web, txn, txnWeb, cy, cycles, writes, stale>>
    /\ UNCHANGED forceRest

NextForce ==
    \/ ForceCreateSnapshot
    \/ ForceReadFails
    \/ ForceSaveFails

SpecForce == InitForce /\ [][NextForce]_vars

\* --------------------------------------- sync.js: syncToWebDB statement order
\* Rows in the inserts list of a table's diff.
MaxInserts == 2

\* A list of n rows of table t under part.
ApplyRowList(t, part, n) == [i \in 1..n |-> MkRow(t, <<part, i>>, NameOrder[1])]

\* The diffs of one table: up to MaxInserts inserts, at most one update, and
\* no delete, one, or one more than the threshold of the batched delete.
ApplyTableDiffs(t) ==
    {[inserts |-> ApplyRowList(t, "inserts", i),
      updates |-> ApplyRowList(t, "updates", u),
      deletes |-> ApplyRowList(t, "deletes", d)] :
        i \in 0..MaxInserts, u \in 0..1, d \in {0, 1, DeleteBatchThreshold + 1}}

\* options.tables: the configured tables in configuration order.
ApplyConfigs == {<<"rrc_clients", "acc_users">>, <<"acc_users", "rrc_clients">>,
                 <<"rrc_clients">>}

\* The diffData of a cycle over the tables T with at least one change.
ApplyDiffsOf(T) ==
    {x \in [Range(T) -> UNION {ApplyTableDiffs(t) : t \in Range(T)}] :
        /\ \A t \in Range(T) : x[t] \in ApplyTableDiffs(t)
        /\ NextBatch("current", x, 0) # 0}

\* The row as the destination held it before its content changed.
OldVersion(row) == [row EXCEPT !.name = NameOrder[2]]

\* What the destination can hold when syncToWebDB is called with diff d: the
\* rows the diff was computed against and a row the diff does not touch (in
\* step with the snapshot), nothing, or in addition rows under the keys of
\* the inserts.
ApplyDests(d) ==
    LET part(t, p) == Range(DiffPart(d, t, p))
        instep == [t \in TableSet |->
                     {OldVersion(r) : r \in part(t, "updates")} \cup part(t, "deletes")
                     \cup {MkRow(t, <<"kept", 1>>, NameOrder[1])}]
        ahead  == [t \in TableSet |->
                     instep[t] \cup {OldVersion(r) : r \in part(t, "inserts")}]
    IN  {instep, EmptyDB, ahead}

\* syncToWebDB(diffData, client) is called when totalChanges is not 0.
ApplyCalls ==
    UNION {UNION {{[NoApply EXCEPT !.tables = T, !.diff = d, !.pc = "ready",
                                   !.batch = NextBatch("current", d, 0),
                                   !.web = w, !.web0 = w] :
                       w \in ApplyDests(d)} :
                  d \in ApplyDiffsOf(T)} : T \in ApplyConfigs}

InitApply ==
    /\ InitCycleVars
    /\ InitDiffVars
    /\ InitSchedVars
    /\ InitFsVars
    /\ InitConnVars
    /\ InitStatsVars
    /\ InitForceVars
    /\ ap \in ApplyCalls

\* The part of the diff batch b applies.
BatchPart(b) == IF b \in {1, 4} THEN "inserts" ELSE IF b \in {2, 5} THEN "updates"
                ELSE "deletes"

\* A statement handed to the client: its SQL verb, its table, the rows its
\* parameters name and what executing it does to the table.
RowStmt(op, t, rows, exec) == [op |-> op, table |-> t, rows |-> rows, exec |-> exec]

\* The client.query calls batch b makes when it starts: one per row, or the
\* SELECT of every row, or the one DELETE ... = ANY.
FirstStmts(b, rows) ==
    LET op == BatchOp("current", b)
        t  == BatchTable(b)
    IN  IF op = "selectWrite"
        THEN [i \in 1..Len(rows) |-> RowStmt("SELECT", t, <<rows[i]>>, "none")]
        ELSE IF b = 6 /\ Len(rows) > DeleteBatchThreshold
        THEN <<RowStmt("DELETE ANY", t, rows, "delete")>>
        ELSE IF op = "delete"
        THEN [i \in 1..Len(rows) |-> RowStmt("DELETE", t, <<rows[i]>>, "delete")]
        ELSE IF op = "update"
        THEN [i \in 1..Len(rows) |-> RowStmt("UPDATE", t, <<rows[i]>>, "update")]
        ELSE [i \in 1..Len(rows) |-> RowStmt("INSERT", t, <<rows[i]>>, "upsert")]

\* The statement a completed SELECT of the acc_users inserts is followed by.
WriteAfterSelect(S, stmt) ==
    IF Conflicts(S, stmt.rows[1], KeyField(stmt.table))
    THEN RowStmt("UPDATE", stmt.table, stmt.rows, "update")
    ELSE RowStmt("INSERT", stmt.table, stmt.rows, "insert")

\* The table after the statement.
ExecStmt(S, stmt) ==
    IF stmt.exec = "none" THEN S
    ELSE ExecRows(S, stmt.rows, stmt.exec, KeyField(stmt.table), Len(stmt.rows))

\* A batch starts: its statements are handed to the client, which runs them
\* in the order given.
ApplyIssue ==
    /\ ap.pc = "ready"
    /\ LET rows  == BatchRows("current", ap.diff, ap.batch)
           stmts == FirstStmts(ap.batch, rows)
       IN  ap' = [ap EXCEPT
                    !.pc = "running",
                    !.queue = @ \o stmts,
                    !.log = Append(@, [table |-> BatchTable(ap.batch),
                                       part |-> BatchPart(ap.batch),
                                       pending |-> Len(ap.queue),
                                       rows |-> Len(rows),
                                       ops |-> [i \in 1..Len(stmts) |-> stmts[i].op]])]
    /\ UNCHANGED applyRest

\* The oldest pending statement completes. A completed SELECT of the
\* acc_users inserts issues that row's UPDATE or INSERT; when nothing of the
\* batch is pending, Promise.all resolves and the next batch with rows is
\* ready.
ApplyComplete ==
    /\ ap.pc = "running"
    /\ ap.queue # <<>>
    /\ LET head == Head(ap.queue)
           S    == ap.web[head.table]
           more == IF head.op = "SELECT" THEN <<WriteAfterSelect(S, head)>> ELSE <<>>
           q    == Tail(ap.queue) \o more
           nb   == NextBatch("current", ap.diff, ap.batch)
           a    == [ap EXCEPT !.queue = q, !.completed = @ + 1,
                              !.web[head.table] = ExecStmt(S, head)]
       IN  ap' = IF q # <<>> THEN a
                 ELSE [a EXCEPT !.batch = nb,
                                !.pc = IF nb = 0 THEN "done" ELSE "ready"]
    /\ UNCHANGED applyRest

\* The oldest pending statement fails: Promise.all rejects, syncToWebDB logs
\* and rethrows, and no further batch is started.
ApplyFails ==
    /\ ap.pc = "running"
    /\ ap.queue # <<>>
    /\ ap' = [ap EXCEPT !.pc = "failed"]
    /\ UNCHANGED applyRest

NextApply ==
    \/ ApplyIssue
    \/ ApplyComplete
    \/ ApplyFails

SpecApply == InitApply /\ [][NextApply]_vars

\* ------------------------------------- database.js: fetchData among holders
\* Another holder's releaseConnection(dbKey, connection) runs while fetchData
\* awaits its queries: the connection fetchData holds is a local of its own.
ReleaseDuringFetch ==
    /\ call.fn = "fetchData"
    /\ call.pc = "queries"
    /\ \E connection \in Oldest(conns.held \ {call.conn}) :
        LET pool == dbConnections.remote.pool
        IN  /\ dbConnections' = [dbConnections EXCEPT
                                   !.remote.pool = PoolAfterRelease(pool, connection)]
            /\ conns' = [conns EXCEPT !.held = @ \ {connection},
                                      !.closed = @ \cup ClosedOnRelease(pool, connection)]
    /\ UNCHANGED <<call, released, closedAll>>
    /\ UNCHANGED connRest

NextFetch ==
    \/ GetOdbc
    \/ OdbcAttemptOk
    \/ OdbcAttemptFails
    \/ RunQueries
    \/ ReleaseConnection
    \/ ReleaseDuringFetch

SpecFetch == InitConn /\ [][NextFetch]_vars

\* ------------------------------------------------------------- properties
\* The cycle has sent a statement of kind op to the destination.
SentOp(c, op) == \E i \in 1..Len(c.sent) : c.sent[i].op = op

\* No two rows of a destination table share their key.
UniqueKeys(db) ==
    \A t \in TableSet : \A r1, r2 \in db[t] : r1[KeyField(t)] = r2[KeyField(t)] => r1 = r2

\* C1: in every cycle the new snapshot is saved only after the destination
\* transaction's COMMIT has succeeded: the new snapshot is never persisted
\* while the transaction the cycle opened is not committed.
C1_SaveOnlyAfterCommit == cy.savedNew /\ cy.begun => cy.committed

\* C2: when a statement of the apply step fails (23505 included), the cycle
\* issues ROLLBACK and never COMMIT, the destination's content is what it was
\* before the cycle (no table's changes survive), and the cycle ends as failed.
C2_ApplyFailureRollsBack ==
    cy.failedAt # 0 =>
        /\ SentOp(cy, "ROLLBACK")
        /\ ~SentOp(cy, "COMMIT")
        /\ web = cy.web0
        /\ cy.pc = "done" => cy.result = "failed" /\ txn = "none"

\* A cycle ended after a 23505 in an acc_users batch that followed rrc_clients
\* batches whose statements had succeeded inside the transaction.
C2_Witness ==
    /\ cy.pc = "done"
    /\ cy.failedAt >= 4
    /\ cy.err = "23505"
    /\ cy.applied # <<>>
    /\ \A i \in 1..Len(cy.applied) : cy.applied[i] <= 3
    /\ SentOp(cy, "ROLLBACK")

\* C3: a cycle that starts with a valid stored snapshot under its source's
\* name and in which the apply step or a destination query fails leaves that
\* stored snapshot as it was: the primary file is not rewritten.
C3_FailureKeepsSnapshot ==
    (/\ cy.destFailed
     /\ cy.store0[SnapshotKey(cy)].main.state = "ok"
     /\ ~NoValidSnapshotDraft(loadSnapshot(cy.store0, SnapshotKey(cy))))
    => store[SnapshotKey(cy)] = cy.store0[SnapshotKey(cy)]

\* C4: a cycle that runs after a crash struck between a COMMIT and the snapshot
\* save, the source unchanged, re-applies the same changes without a
\* duplicate-key error and without duplicate rows, and leaves the destination
\* as the first apply left it.
C4_ReapplyIsIdempotent ==
    cy.reapply =>
        /\ ~cy.dupKey
        /\ UniqueKeys(web)
        /\ cy.pc = "done" /\ cy.result = "ok" => web = cy.web0

\* The cycle has computed its diff.
HasDiffed(c) == c.total # -1

\* C5: a cycle whose total changed-row count is zero opens no transaction on
\* the destination and sends it no statement at all (no BEGIN, no COMMIT, no
\* insert, update or delete).
C5_NoChangesNoStatements ==
    HasDiffed(cy) /\ cy.total = 0 => ~cy.begun /\ cy.sent = <<>>

\* C6: a cycle whose diff is empty for every configured table, a valid
\* snapshot being stored when it starts, never calls saveSnapshot: the main,
\* backup and archive files are what they were when the cycle started.
C6_NoOpCycleKeepsFiles ==
    (/\ HasDiffed(cy) /\ cy.total = 0
     /\ cy.store0[SnapshotKey(cy)].main.state = "ok"
     /\ ~NoValidSnapshotDraft(loadSnapshot(cy.store0, SnapshotKey(cy))))
    => store = cy.store0

\* C7: a cycle that finds no valid snapshot under its source's name takes, when
\* the destination's primary table has a row, the destination's rows as the old
\* state, that baseline being stored under the source's name before the diff,
\* so that no row held identically by source and destination is an insert; and
\* takes, when the primary table is empty, the snapshot with every configured
\* table empty, nothing having been stored before the diff.
C7_BootstrapPolicy ==
    LET key == SnapshotKey(cy)
    IN  /\ HasDiffed(cy) /\ cy.store0[key].main.state = "missing" => cy.boot # "none"
        /\ HasDiffed(cy) /\ cy.boot = "fromDest" =>
              /\ cy.web0["rrc_clients"] # {}
              /\ cy.oldSnapshot = QueryAll(cy.web0)
              /\ loadSnapshot(cy.storeAtDiff, key) = QueryAll(cy.web0)
              /\ \A t \in Range(cy.args.tables) : \A r \in source[t] \cap cy.web0[t] :
                    r \notin Range(cy.diffData[t].inserts)
        /\ HasDiffed(cy) /\ cy.boot = "empty" =>
              /\ cy.web0["rrc_clients"] = {}
              /\ \A t \in Range(cy.args.tables) : cy.oldSnapshot[t] = <<>>
              /\ cy.storeAtDiff = cy.store0

\* A cycle ended well that found no snapshot, took its baseline from a
\* destination holding a row the source holds identically, and yet had
\* changes to apply.
C7_Witness ==
    /\ cy.pc = "done" /\ cy.result = "ok"
    /\ cy.boot = "fromDest"
    /\ cy.store0[SnapshotKey(cy)].main.state = "missing"
    /\ source["rrc_clients"] \cap cy.web0["rrc_clients"] # {}
    /\ cy.total > 0

\* The pending cycles a trigger of kind by has started.
PendingBy(by) == {i \in 1..Len(inflight) : inflight[i].by = by}

\* C8: scheduled triggers never overlap: at any time at most one cycle started
\* by the scheduler is in flight (a trigger that fires while one runs starts
\* none).
C8_ScheduledNeverOverlap == Cardinality(PendingBy("cron")) <= 1

\* C9: for every interleaving of manual (POST /sync) and scheduled triggers at
\* most one sync cycle is in flight, so that one cycle at a time writes the
\* snapshot file.
C9_ManualRespectsNoOverlap == Len(inflight) <= 1

\* The keys of a list of rows, and whether they are unique and none is null.
KeysOf(rows) == {rows[i].code : i \in 1..Len(rows)}

HasUniqueNonNullKeys(rows) ==
    /\ \A i \in 1..Len(rows) : rows[i].code # Null
    /\ \A i, j \in 1..Len(rows) : rows[i].code = rows[j].code => i = j

\* C10: for old and new rows with unique non-null keys computeDiff returns as
\* inserts exactly the new rows whose key old lacks, as updates exactly the new
\* rows whose key old has with other content, as deletes exactly the old rows
\* whose key new lacks, each once; a row equal in both is in none.
C10_DiffComplete ==
    (dpc = "done" /\ HasUniqueNonNullKeys(dOld) /\ HasUniqueNonNullKeys(dNew)) =>
        /\ Range(dOut.inserts) = {r \in Range(dNew) : r.code \notin KeysOf(dOld)}
        /\ Range(dOut.updates) =
              {r \in Range(dNew) : r.code \in KeysOf(dOld) /\ r \notin Range(dOld)}
        /\ Range(dOut.deletes) = {r \in Range(dOld) : r.code \notin KeysOf(dNew)}
        /\ Len(dOut.inserts) = Cardinality(Range(dOut.inserts))
        /\ Len(dOut.updates) = Cardinality(Range(dOut.updates))
        /\ Len(dOut.deletes) = Cardinality(Range(dOut.deletes))

\* The rows a call returned, inserts then updates then deletes.
AllOut == dOut.inserts \o dOut.updates \o dOut.deletes

\* C11: whatever computeDiff is given, no key value is in more than one of
\* inserts, updates and deletes, and none is twice in one of them.
C11_DiffDisjoint ==
    dpc = "done" => \A i, j \in 1..Len(AllOut) : AllOut[i].code = AllOut[j].code => i = j

\* A call that returned an insert, an update and a delete.
C11_Witness ==
    /\ dpc = "done"
    /\ Len(dOut.inserts) > 0 /\ Len(dOut.updates) > 0 /\ Len(dOut.deletes) > 0

\* C12: computeDiff(X, X, key) returns no insert, no update and no delete for
\* every X with unique non-null keys, whatever the hash cache holds, a clear
\* of the cache between the hashing of the two copies included.
C12_DiffOfSameIsEmpty ==
    (/\ dpc = "done" /\ dOldKind = "array" /\ dNewKind = "array"
     /\ dOld = dNew /\ HasUniqueNonNullKeys(dOld))
    => dOut = EmptyDiff

\* utils/diff.js has diffed two rows against themselves and cleared its cache
\* after it had hashed the first of them.
C12_Witness ==
    /\ dpc = "done" /\ dImpl = "utils/diff.js"
    /\ dOld = dNew /\ Len(dOld) = 2
    /\ \A i \in 1..Len(dOld) : Truthy(dOld[i].code)
    /\ dOld[1].code # dOld[2].code
    /\ hashCache.clears > 0

\* The rows of a list that have a key (neither undefined nor null).
Keyed(rows) == SelectSeq(rows, LAMBDA r : r.code # Null)

\* What the diff of two lists whose keyed rows have unique keys is to be.
ExpectedDiff(old, new) ==
    [inserts |-> SelectSeq(Keyed(new), LAMBDA r : r.code \notin KeysOf(Keyed(old))),
     updates |-> SelectSeq(Keyed(new), LAMBDA r : r.code \in KeysOf(Keyed(old))
                                                 /\ r \notin Range(old)),
     deletes |-> SelectSeq(Keyed(old), LAMBDA r : r.code \notin KeysOf(Keyed(new)))]

\* C13: computeDiff (utils/diff.js, later draft) leaves out exactly the rows
\* whose key is undefined or null, which are in no result list and do not make
\* the call fail; every row with another key, 0 and "" included, is diffed.
C13_OnlyNullKeysSkipped ==
    (/\ dImpl \in {"utils/diff.js", "part_001"} /\ dpc # "idle"
     /\ dOldKind = "array" /\ dNewKind = "array"
     /\ HasUniqueNonNullKeys(Keyed(dOld)) /\ HasUniqueNonNullKeys(Keyed(dNew)))
    => dpc = "done" /\ dOut = ExpectedDiff(dOld, dNew)

\* C14: computeDiff (utils/diff.js, later draft) takes an old or new argument
\* that is no array as empty and returns instead of raising; with old empty it
\* returns the keyed new rows as inserts and nothing else, with new empty the
\* keyed old rows as deletes and nothing else.
C14_EmptyAndNonArrayInput ==
    (/\ dImpl \in {"utils/diff.js", "part_001"} /\ dpc # "idle"
     /\ HasUniqueNonNullKeys(Keyed(dOld)) /\ HasUniqueNonNullKeys(Keyed(dNew)))
    => /\ dpc = "done"
       /\ dOld = <<>> => dOut = [inserts |-> Keyed(dNew), updates |-> <<>>, deletes |-> <<>>]
       /\ dNew = <<>> => dOut = [inserts |-> <<>>, updates |-> <<>>, deletes |-> Keyed(dOld)]

C16_LoadFallsBack ==
    loaded.on =>
        /\ ~loaded.raised
        /\ loaded.files.main.state = "corrupt" =>
              loaded.value = IF loaded.files.backup.state = "ok"
                             THEN JSONparseSnapshot(loaded.files.backup.text)
                             ELSE EmptySnapshot

\* A load met a corrupted main file and returned the backup's tables.
C16_Witness ==
    /\ loaded.on
    /\ loaded.files.main.state = "corrupt" /\ loaded.files.backup.state = "ok"
    /\ loaded.value # EmptySnapshot

\* C17: with the main file missing and a valid backup file, loadSnapshot
\* returns the content of the backup file, not the empty snapshot.
C17_MissingMainLoadsBackup ==
    (/\ loaded.on
     /\ loaded.files.main.state = "missing" /\ loaded.files.backup.state = "ok")
    => loaded.value = JSONparseSnapshot(loaded.files.backup.text)

\* C18: after successful saves only, the main file holds the last snapshot
\* saved and, from the second save on, the backup file holds the one saved
\* before it; a save that found a main file leaves an archive copy of it.
C18_SavesRotateFiles ==
    /\ \A k \in StoreKeys :
          pristine[k] /\ Len(saved[k]) >= 1 =>
              /\ store[k].main = FileOf(saved[k][Len(saved[k])])
              /\ Len(saved[k]) >= 2 =>
                    store[k].backup = FileOf(saved[k][Len(saved[k]) - 1])
    /\ lastSave.on /\ lastSave.done /\ lastSave.found =>
          LET k == lastSave.key
          IN  /\ Len(store[k].archives) > 0
              /\ store[k].archives[Len(store[k].archives)] = lastSave.prev
              /\ pristine[k] => lastSave.prev = FileOf(saved[k][Len(saved[k]) - 1])

\* The third successful save of a name has just returned.
C18_Witness ==
    /\ lastSave.on /\ lastSave.done /\ lastSave.found
    /\ pristine[lastSave.key]
    /\ Len(saved[lastSave.key]) = 3
    /\ saved[lastSave.key][2] # saved[lastSave.key][3]

\* C19: partial writes are never observable: whatever an interrupted save
\* leaves, a later loadSnapshot returns the snapshot of a completed save or
\* the empty snapshot.
C19_NoPartialLoad ==
    loaded.on => loaded.value \in Range(saved[loaded.key]) \cup {EmptySnapshot}

\* A load after an interrupted save met its half-written main file and
\* returned an earlier save.
C19_Witness ==
    /\ loaded.on
    /\ lastSave.on /\ ~lastSave.done /\ lastSave.key = loaded.key
    /\ loaded.files.main.state = "corrupt" /\ DOMAIN loaded.files.main.text # {}
    /\ loaded.value # EmptySnapshot

\* C20: purgeOldSnapshots deletes exactly the archive files older than
\* maxAgeInDays and returns their number (0 for an empty directory); a failure
\* while purging makes it return 0, and it never raises to its caller.
C20_PurgeByAge ==
    purged.form # "none" =>
        /\ ~purged.raised
        /\ purged.failed => purged.returned = 0
        /\ ~purged.failed =>
              /\ \A k \in StoreKeys :
                    purged.after[k] =
                        SelectSeq(purged.before[k], LAMBDA e : e.age <= purged.maxAge)
              /\ purged.returned =
                    (Len(purged.before["remote"]) - Len(purged.after["remote"]))
                    + (Len(purged.before["web"]) - Len(purged.after["web"]))

\* connectToDatabase of the ODBC source has run to its end inside the call.
ConnectFinished ==
    call.dbKey = "remote" /\ call.attempts > 0 /\ call.pc # "attempt"

\* C21: one connectToDatabase call for an ODBC source makes at most three
\* attempts with the fixed delay between consecutive attempts, stops at the
\* first success and hands out that connection, and after three failures
\* raises the error of the last attempt; it never returns without a
\* connection.
C21_ConnectRetries ==
    /\ call.attempts <= Retries
    /\ ConnectFinished =>
        /\ call.delays = [i \in 1..(call.attempts - 1) |-> RetryDelay]
        /\ call.errors = [i \in 1..Len(call.errors) |-> i]
        /\ Len(call.errors) \in {call.attempts - 1, call.attempts}
        /\ Len(call.errors) = call.attempts - 1 =>
            /\ call.conn \in 1..conns.made
            /\ call.fn = "getDBConnection" => call.result = "returned"
        /\ Len(call.errors) = call.attempts =>
            /\ call.attempts = Retries
            /\ call.result = "raised"
            /\ call.err = call.errors[Retries]
            /\ call.conn = 0

C21_Witness ==
    /\ ConnectFinished
    /\ call.result = "raised"
    /\ Len(call.errors) = Retries
    /\ Len(call.delays) = Retries - 1

\* C22: getDBConnection("web") returns normally only with a pool that has
\* passed the liveness query and is marked connected.
C22_WebPoolValidated ==
    (call.fn = "getDBConnection" /\ call.dbKey = "web" /\ call.result = "returned")
        => (dbConnections.web.validated /\ dbConnections.web.connected)

\* C23: the ODBC reuse pool never holds more than maxPoolSize connections; a
\* released connection is pushed when the pool is under capacity and closed
\* otherwise, and a release under a key that is not an ODBC source changes
\* nothing.
C23_PoolBounded ==
    /\ Len(dbConnections.remote.pool) <= maxPoolSize
    /\ released.on =>
        /\ dbConnections.remote.pool = released.after
        /\ (released.dbKey = "remote" /\ Len(released.before) < maxPoolSize) =>
              /\ released.after = Append(released.before, released.conn)
              /\ ~released.closed
              /\ released.conn \notin conns.closed
        /\ (released.dbKey = "remote" /\ Len(released.before) >= maxPoolSize) =>
              /\ released.after = released.before
              /\ released.closed
              /\ released.conn \in conns.closed
        /\ released.dbKey # "remote" =>
              /\ released.after = released.before
              /\ ~released.closed
              /\ released.conn \in conns.held

C23_Witness ==
    /\ released.on
    /\ released.dbKey = "remote"
    /\ Len(released.before) = maxPoolSize
    /\ released.closed

\* C24: fetchData issues every named query exactly once, all on the one
\* connection it acquired; when all succeed it returns the results under
\* exactly the query names, each name with the result of its own query, and
\* when one fails it raises.
C24_FetchData ==
    (call.fn = "fetchData" /\ call.pc = "done" /\ call.conn # 0) =>
        /\ call.executed = [i \in 1..Len(call.names) |->
                              [sql |-> SqlOf(call.names[i]), conn |-> call.conn]]
        /\ call.result \in {"returned", "raised"}
        /\ call.result = "returned" =>
              call.value = {<<n, QueryResult(SqlOf(n))>> : n \in Range(call.names)}
        /\ call.result = "raised" => call.err \in 1..Len(call.names)

C24_Witness ==
    /\ call.fn = "fetchData"
    /\ call.pc = "done"
    /\ call.result = "returned"
    /\ Len(call.names) = 2

\* C25: closeConnections returns true whatever close fails; after it the ODBC
\* reuse pool is empty and the pooled database is marked not connected.
C25_CloseAlwaysCompletes ==
    closedAll.on =>
        /\ closedAll.returned
        /\ dbConnections.remote.pool = <<>>
        /\ ~dbConnections.web.connected

C25_Witness ==
    /\ closedAll.on
    /\ closedAll.failures >= 2
    /\ dbConnections.web.pool = "open"

\* C26: a failing cycle never raises out of syncBetweenDatabases, which
\* returns success=false with the error message; every failed cycle leaves
\* its error and the time of it in the statistics of its source; and what a
\* scheduled cycle raises is caught by the scheduler callback.
C26_FailuresRecorded ==
    (run.pc = "done" /\ run.outcome # "ok") =>
        /\ run.fn = "syncBetweenDatabases" =>
              (run.outcome = "failed" /\ run.message = run.err)
        /\ syncStats[run.src].lastError = run.err
        /\ syncStats[run.src].lastErrorTime = run.time
        /\ (run.via = "cron" /\ run.outcome = "raised") => run.caught

\* C28: for every source, successfulSyncs counts its successful cycles,
\* totalDuration is the sum of their durations and averageDuration is
\* totalDuration / successfulSyncs; a failed cycle changes none of the three.
C28_AverageDuration ==
    \A k \in DOMAIN syncStats :
        /\ syncStats[k].successfulSyncs = Len(durations[k])
        /\ syncStats[k].totalDuration = SumSeq(durations[k])
        /\ syncStats[k].averageDuration =
              IF durations[k] = <<>> THEN <<0, 1>>
              ELSE Ratio(SumSeq(durations[k]), Len(durations[k]))

C28_Witness ==
    /\ run.pc = "done"
    /\ run.outcome = "ok"
    /\ syncStats[run.src].successfulSyncs = 2
    /\ syncStats[run.src].failedSyncs = 1
    /\ syncStats[run.src].averageDuration = <<3, 2>>

\* C29: a step of a cycle for one source changes no field of the statistics
\* of any other source, and a write to the result of getSyncStats changes
\* nothing stored.
C29_StatsIndependent ==
    [][/\ (run' # run) =>
            \A k \in DOMAIN syncStats :
                k # run'.src => (k \in DOMAIN syncStats' /\ syncStats'[k] = syncStats[k])
       /\ (view'.writes > view.writes) => syncStats' = syncStats]_vars

C29_Witness ==
    /\ view.writes = 1
    /\ "local" \in DOMAIN syncStats
    /\ syncStats["remote"].totalSyncs > 0
    /\ \E k \in DOMAIN syncStats :
          view.value[k].fields.totalSyncs # syncStats[k].totalSyncs

\* C27: forceCreateSnapshot(dbKey) never raises; it returns success=true
\* exactly when nothing failed and the key is web or remote, and then the
\* stored snapshot of dbKey is the current content of that database; a failed
\* read, a failed save or an unsupported key gives success=false with a
\* message. No call writes to a database or computes a diff.
C27_ForceSnapshot ==
    /\ [](forced.on =>
            /\ ~forced.raised
            /\ forced.success <=> forced.fault = "none"
            /\ forced.success =>
                  /\ forced.dbKey \in {"web", "remote"}
                  /\ store[forced.dbKey].main =
                        FileOf(QueryAll(ForcedDb(forced.dbKey, web, source)))
                  /\ loadSnapshot(store, forced.dbKey) =
                        JSONparseSnapshot(JSONofSnapshot(
                            QueryAll(ForcedDb(forced.dbKey, web, source))))
            /\ ~forced.success => forced.message # Null
            /\ forced.fault \in {"read", "unsupported"} => store = forced.before)
    /\ [][forced' # forced =>
            /\ web' = web /\ source' = source
            /\ cy' = cy /\ dpc' = dpc /\ dOut' = dOut
            /\ \A k \in StoreKeys \ {forced'.dbKey} : store'[k] = store[k]]_vars

C27_Witness ==
    /\ forced.on
    /\ forced.success
    /\ forced.dbKey = "remote"
    /\ forced.n = 2
    /\ QueryAll(source) # QueryAll(web)
    /\ store["remote"].backup.state = "ok"
    /\ store["remote"].backup # store["remote"].main

\* The place of a batch in the order the claim asks for: tables in
\* configuration order, and inserts, updates, deletes within a table.
PartRank(part) == IF part = "inserts" THEN 1 ELSE IF part = "updates" THEN 2 ELSE 3

TablePos(t) == CHOOSE i \in 1..Len(ap.tables) : ap.tables[i] = t

GoesBefore(a, b) ==
    \/ a.table = b.table /\ PartRank(a.part) < PartRank(b.part)
    \/ TablePos(a.table) < TablePos(b.table)

\* C30: a batch of statements is started only when every statement started
\* before it has completed, and the batches are started in the order inserts,
\* updates, deletes within a table and in configuration order across tables.
C30_ApplyOrder ==
    \A j \in 1..Len(ap.log) :
        /\ ap.log[j].pending = 0
        /\ \A i \in 1..(j - 1) : ~GoesBefore(ap.log[j], ap.log[i])

\* The rows of the call's diff for table t under part.
ApplyPart(t, part) == Range(DiffPart(ap.diff, t, part))

\* C31: for every table, a delete batch of more than 10 rows is one
\* set-membership delete statement and a batch of 10 or fewer is one delete
\* statement per row; after the apply exactly the rows with the deleted keys
\* are gone.
C31_DeleteBatching ==
    /\ \A j \in 1..Len(ap.log) :
          ap.log[j].part = "deletes" =>
              ap.log[j].ops = IF ap.log[j].rows > DeleteBatchThreshold
                              THEN <<"DELETE ANY">>
                              ELSE [i \in 1..ap.log[j].rows |-> "DELETE"]
    /\ ap.pc = "done" =>
          \A t \in Range(ap.tables) :
              /\ \A r \in ap.web[t] : \A d \in ApplyPart(t, "deletes") :
                    r[KeyField(t)] # d[KeyField(t)]
              /\ \A r \in ap.web0[t] :
                    (\A d \in ApplyPart(t, "deletes") \cup ApplyPart(t, "updates")
                               \cup ApplyPart(t, "inserts") :
                        r[KeyField(t)] # d[KeyField(t)]) => r \in ap.web[t]

\* C32: after a successful apply every row of the inserts and of the updates
\* is in the destination with its new content, whatever the destination held
\* under its key before.
C32_InsertsAndUpdatesUpsert ==
    ap.pc = "done" =>
        \A t \in Range(ap.tables) :
            \A r \in ApplyPart(t, "inserts") \cup ApplyPart(t, "updates") :
                r \in ap.web[t]

\* C33: a failed cycle is fatal for that cycle only. Whenever a scheduled
\* cycle ends, resolved or rejected, the in-flight flag is clear right after;
\* the flag is set only while a scheduled cycle is in flight; and a trigger
\* that fires while no scheduled cycle is in flight is never skipped.
C33_FlagClearedAfterAnyEnd ==
    /\ [](PendingBy("cron") = {} => ~isSyncRunning)
    /\ [][/\ (settled' # settled /\ settled'.by = "cron") => ~isSyncRunning'
          /\ (PendingBy("cron") = {} /\ triggers' # triggers) => skipped' = skipped]_vars

\* A scheduled cycle was rejected and a later scheduled trigger started a
\* cycle.
C33_Witness ==
    /\ entry = "optimized"
    /\ settled.by = "cron" /\ settled.outcome = "rejected"
    /\ \E i \in PendingBy("cron") : inflight[i].n > settled.n

\* C34: every cycle that issues BEGIN has exactly one terminal outcome when
\* its client is released, a COMMIT that succeeded or a ROLLBACK that was
\* issued; the released client has no open transaction; and such a cycle
\* that ends as successful has committed.
C34_OneTerminalOutcome ==
    SentOp(cy, "BEGIN") =>
        /\ cy.releases > 0 =>
              /\ txn = "none"
              /\ cy.committed # SentOp(cy, "ROLLBACK")
        /\ (cy.pc = "done" /\ cy.result = "ok") => cy.committed

\* A cycle whose transaction was rolled back after a failure has released its
\* client.
C34_Witness ==
    /\ cy.pc = "done" /\ cy.result = "failed"
    /\ SentOp(cy, "BEGIN") /\ SentOp(cy, "ROLLBACK") /\ ~cy.committed
    /\ cy.releases = 1 /\ txn = "none"

\* C35: in every cycle of every version the destination client obtained with
\* connect() is released exactly once, however the cycle ends: never twice,
\* once when the cycle has ended, and never when no client was obtained.
C35_ClientReleasedOnce ==
    /\ cy.releases <= 1
    /\ (cy.pc = "done" /\ SentOp(cy, "BEGIN")) => cy.releases = 1
    /\ ~SentOp(cy, "BEGIN") => cy.releases = 0

\* C36: whenever no cycle is in flight, every source's statistics satisfy
\* totalSyncs = successfulSyncs + failedSyncs, and lastSyncTime is set once
\* totalSyncs is above 0, whatever made the earlier cycles fail.
C36_StatsAddUp ==
    run.pc \in {"idle", "done"} =>
        \A k \in DOMAIN syncStats :
            /\ syncStats[k].totalSyncs =
                   syncStats[k].successfulSyncs + syncStats[k].failedSyncs
            /\ syncStats[k].totalSyncs > 0 => syncStats[k].lastSyncTime # 0

\* C37: a cycle that syncs a source writes no stored snapshot but that
\* source's: from its start to its end the files of every other stored name,
\* those of "web" in particular, are what they were when it started.
C37_OnlyOwnSnapshotWritten ==
    cy.pc # "idle" =>
        \A k \in StoreKeys \ {SnapshotKey(cy)} : store[k] = cy.store0[k]

C39_CrashSafe ==
    (cy.afterCrash /\ writes = 0 /\ cy.pc = "done" /\ cy.result = "ok") =>
        \A t \in Range(cy.args.tables) : web[t] = source[t]

\* The places connection holds in the ODBC reuse pool.
PoolPlaces(connection) ==
    {i \in 1..Len(dbConnections.remote.pool) : dbConnections.remote.pool[i] = connection}

\* C40: a fetchData call that acquired a connection has handed it back
\* exactly once when it ends, by return or by throw: the connection is held by
\* no one and is either once in the pool or closed; a call whose acquisition
\* failed releases nothing; fetchData's last step takes its own connection,
\* and nothing else, out of the held ones; and no connection is in the pool
\* twice or in the pool while held.
C40_FetchReleasesOnce ==
    /\ []((call.fn = "fetchData" /\ call.pc = "done" /\ call.conn # 0) =>
            /\ call.conn \notin conns.held
            /\ \/ Cardinality(PoolPlaces(call.conn)) = 1 /\ call.conn \notin conns.closed
               \/ PoolPlaces(call.conn) = {} /\ call.conn \in conns.closed)
    /\ [](\A c \in 1..conns.made :
            /\ Cardinality(PoolPlaces(c)) <= 1
            /\ c \in conns.held => PoolPlaces(c) = {})
    /\ [][/\ (call.fn = "fetchData" /\ call.pc = "queries" /\ call'.pc = "done") =>
               conns'.held = conns.held \ {call.conn}
          /\ (call'.fn = "fetchData" /\ call'.pc = "done" /\ call'.conn = 0
                  /\ call.pc = "attempt") =>
               UNCHANGED <<dbConnections, conns>>]_vars

\* A fetchData call one of whose queries failed has ended with its
\* connection closed, other holders having filled the pool meanwhile.
C40_Witness ==
    /\ call.fn = "fetchData" /\ call.pc = "done" /\ call.result = "raised"
    /\ call.conn # 0
    /\ call.conn \in conns.closed
    /\ Len(dbConnections.remote.pool) = maxPoolSize
    /\ call.conn \notin conns.held

====
